---------------------------- MODULE Spec2Model ----------------------------
(***************************************************************************)
(* A model of the kratos IR variable/expression graph (src/src/expr.cc).   *)
(*                                                                         *)
(* The graph is an arena: `nodes` is the sequence of all Var objects ever  *)
(* constructed (a node's identity is its index), `stmts` the sequence of   *)
(* AssignStmt objects.  Every construction call of the API is one action;  *)
(* a call that throws leaves the graph as the code leaves it and records   *)
(* the exception in `last`, the record of the most recent call.            *)
(***************************************************************************)
EXTENDS Integers, Sequences, FiniteSets, TLC

VARIABLES nodes, stmts, last

vars == <<nodes, stmts, last>>

(***************************************************************************)
(* Bounds of the model.                                                    *)
(***************************************************************************)
\* derived nodes (slices, concatenations, extensions, casts, expressions)
\* a behaviour may allocate on top of its root signals
MaxDerived == 3
\* of which slices, extensions and casts
MaxSlices == 2
MaxExtends == 2
MaxCasts == 2
\* operand views (slices, casts, concatenations, extensions) built before
\* assignments are created
MaxViews == 1
\* assignment statements a behaviour may create
MaxStmts == 1
\* wrapper nodes (slices, casts, extensions, concatenations, expressions)
\* built over the operands of an assignment
MaxWrappers == 2
\* slice indices and extension widths are drawn from 0 .. MaxIdx
MaxIdx == 2
\* per-element widths of root signals are drawn from 1 .. MaxWidth
MaxWidth == 2
\* array dimensions of root signals are drawn from 1 .. MaxDim
MaxDim == 2
\* operator and conditional expressions a behaviour may build
MaxExprs == 1
\* parameter values are drawn from -1 .. MaxValue
MaxValue == 2
\* the bits of the machine word that stands for the 64-bit word of the code
WordBits == 5
\* constants a behaviour may build by Const::constant
MaxConsts == 1

NoNode == 0

(***************************************************************************)
(* Scopes (Generator objects).  const_gen is Const::const_generator_.      *)
(***************************************************************************)
NoGen == "null"
Generators == {"top", "child", "sibling", "const_gen"}

\* Generator::parent(): child and sibling are instantiated in top
GenParent(g) == IF g \in {"child", "sibling"} THEN "top" ELSE NoGen

(***************************************************************************)
(* Var::Var(Generator*, name, var_width, size, is_signed, type): the       *)
(* fields every node has, with the defaults of the member initialisers.    *)
(* cls is the C++ class of the object (the target of virtual dispatch).    *)
(***************************************************************************)
Var(cls, type, generator, var_width, size, is_signed) ==
    [cls |-> cls, type |-> type, generator |-> generator,
     var_width |-> var_width, size |-> size, is_signed |-> is_signed,
     explicit_array |-> FALSE, is_packed |-> FALSE, enum_type |-> "",
     parent_var |-> NoNode, high |-> 0, low |-> 0,
     var_high |-> 0, var_low |-> 0,
     op |-> "", left |-> NoNode, right |-> NoNode, vars |-> <<>>,
     cast_type |-> "",
     slices |-> {}, concat_vars |-> {}, extended |-> {}, casted |-> {},
     sources |-> {}, sinks |-> {},
     value |-> 0, param |-> NoNode, param_vars |-> {}, param_params |-> {},
     parent_param |-> NoNode, condition |-> NoNode, sliced_var |-> NoNode,
     attributes |-> <<>>, member_name |-> ""]

RECURSIVE Prod(_)
Prod(s) == IF s = <<>> THEN 1 ELSE Head(s) * Prod(Tail(s))

\* Var::width(): the per-element width multiplied across all dimensions
width(n) == n.var_width * Prod(n.size)

\* the test `size().size() == 1 && size().front() == 1`
IsScalar(n) == Len(n.size) = 1 /\ n.size[1] = 1

(***************************************************************************)
(* The record of a call: the operation, the receiver, the arguments, the   *)
(* exception thrown ("ok" when none) and the node or statement returned.   *)
(***************************************************************************)
Call(op, self, args, status, ret) ==
    [op |-> op, self |-> self, args |-> args, status |-> status, ret |-> ret]

\* classes whose objects are built from other nodes by a construction call
DerivedCls == {"VarSlice", "VarVarSlice", "PackedSlice", "Expr", "VarConcat",
               "VarExtend", "VarCasted", "ConditionalExpr"}

NumOf(clss) == Cardinality({i \in DOMAIN nodes : nodes[i].cls \in clss})

\* a construction that allocates a node needs room in the arena
Room == NumOf(DerivedCls) < MaxDerived

(***************************************************************************)
(* Range slices.                                                           *)
(***************************************************************************)
\* the bound checks of Var::operator[]({high, low}), before the slice is built
SliceBoundsNoLowCheck(n, high, low) ==
    IF IsScalar(n)
    THEN IF high >= width(n) THEN "VarException" ELSE "ok"
    ELSE IF high > n.size[1] THEN "VarException" ELSE "ok"

SliceBounds(n, high, low) ==
    IF low > high THEN "VarException"
    ELSE IF IsScalar(n)
         THEN IF high >= width(n) THEN "VarException" ELSE "ok"
         ELSE IF high > n.size[1] THEN "VarException" ELSE "ok"

\* base_width of VarSlice::VarSlice: the bits of one element of the outer
\* dimension
BaseWidth(n) == n.var_width * Prod(Tail(n.size))

\* VarSlice::VarSlice(parent, high, low) for the parent p of graph ns:
\* [status, node]
VarSliceIn(ns, p, high, low) ==
    LET parent == ns[p]
        base == [Var("VarSlice", "Slice", parent.generator, parent.var_width,
                     <<1>>, parent.is_signed)
                 EXCEPT !.parent_var = p, !.high = high, !.low = low]
        explicit == IsScalar(parent) /\ parent.explicit_array
        \* compute the width
        shaped ==
            IF explicit THEN base
            ELSE IF IsScalar(parent)
                 THEN [base EXCEPT !.var_width = high - low + 1]
                 ELSE [base EXCEPT
                         !.size = [parent.size EXCEPT ![1] = high - low + 1],
                         !.var_width = parent.var_width]
        \* compute var_high and var_low
        bounded ==
            IF parent.type # "Slice"
            THEN IF explicit
                 THEN [shaped EXCEPT !.var_low = 0,
                                     !.var_high = shaped.var_width - 1]
                 ELSE IF IsScalar(parent)
                      THEN [shaped EXCEPT !.var_low = low, !.var_high = high]
                      ELSE [shaped EXCEPT
                              !.var_low = low * BaseWidth(parent),
                              !.var_high = (high + 1) * BaseWidth(parent) - 1]
            ELSE IF IsScalar(parent)
                 THEN [shaped EXCEPT
                         !.var_low = low + parent.var_low,
                         !.var_high = (high + 1) + parent.var_low]
                 ELSE [shaped EXCEPT
                         !.var_low = parent.var_low + low * BaseWidth(parent),
                         !.var_high = parent.var_low
                                      + (high + 1) * BaseWidth(parent) - 1]
    IN  IF explicit /\ (high # 0 \/ low # 0)
        THEN [status |-> "VarException", node |-> base]
        ELSE [status |-> "ok", node |-> bounded]

\* the constructor on the current graph
VarSlice(p, high, low) == VarSliceIn(nodes, p, high, low)

\* nodes with node n appended as the newest object of the arena
Alloc(n) == Append(nodes, n)
NewId == Len(nodes) + 1

\* Var::operator[](std::pair<uint32_t, uint32_t>)
Slice(p, high, low) ==
    LET chk == SliceBounds(nodes[p], high, low)
        ctor == VarSlice(p, high, low)
    IN  IF chk # "ok"
        THEN /\ last' = Call("slice", p, <<high, low>>, chk, NoNode)
             /\ UNCHANGED <<nodes, stmts>>
        ELSE IF ctor.status # "ok"
        THEN /\ last' = Call("slice", p, <<high, low>>, ctor.status, NoNode)
             /\ UNCHANGED <<nodes, stmts>>
        ELSE /\ Room
             /\ NumOf({"VarSlice"}) < MaxSlices
             /\ nodes' = [Alloc(ctor.node) EXCEPT
                            ![p].slices = @ \cup {NewId}]
             /\ last' = Call("slice", p, <<high, low>>, "ok", NewId)
             /\ UNCHANGED stmts

(***************************************************************************)
(* Variable-indexed slices.                                                *)
(***************************************************************************)
\* std::ceil(std::log2(n)): the least k with 2^k >= n
RECURSIVE CeilLog2From(_, _)
CeilLog2From(n, k) == IF 2 ^ k >= n THEN k ELSE CeilLog2From(n, k + 1)
CeilLog2(n) == CeilLog2From(n, 0)

Max(a, b) == IF a >= b THEN a ELSE b

\* VarVarSlice::VarVarSlice(parent, slice), on VarSlice(parent, 0, 0), for
\* the parent p of graph ns: [status, node]
VarVarSliceIn(ns, p, slice) ==
    LET parent == ns[p]
        base == [VarSliceIn(ns, p, 0, 0).node EXCEPT
                    !.cls = "VarVarSlice", !.sliced_var = slice]
        required_width == Max(1, CeilLog2(parent.size[1]))
    IN  IF IsScalar(parent) /\ ~parent.explicit_array
        THEN [status |-> "ok",
              node |-> [base EXCEPT !.var_width = 1, !.size = <<1>>,
                                    !.var_high = 0, !.var_low = 0]]
        ELSE IF required_width # width(ns[slice])
        THEN [status |-> "VarException", node |-> base]
        ELSE [status |-> "ok",
              node |-> [base EXCEPT
                          !.var_width = parent.var_width,
                          !.size = IF Len(parent.size) > 1
                                   THEN Tail(parent.size) ELSE <<1>>,
                          !.var_high = parent.var_width - 1,
                          !.var_low = 0]]

\* the constructor on the current graph
VarVarSlice(p, slice) == VarVarSliceIn(nodes, p, slice)

\* Var::operator[](const std::shared_ptr<Var> &var)
SliceVar(p, var) ==
    LET ctor == VarVarSlice(p, var) IN
    IF ctor.status # "ok"
    THEN /\ last' = Call("slice_var", p, <<var>>, ctor.status, NoNode)
         /\ UNCHANGED <<nodes, stmts>>
    ELSE /\ Room
         /\ NumOf({"VarSlice", "VarVarSlice"}) < MaxSlices
         /\ nodes' = [Alloc(ctor.node) EXCEPT ![p].slices = @ \cup {NewId}]
         /\ last' = Call("slice_var", p, <<var>>, "ok", NewId)
         /\ UNCHANGED stmts

(***************************************************************************)
(* Expressions, concatenation, extension.                                  *)
(***************************************************************************)
\* Expr::set_parent() without its rule for a port of an inner scope
ExprParentNoPortRule(left, right) ==
    IF right = NoNode THEN nodes[left].generator
    ELSE LET left_gen == nodes[left].generator
             right_gen == nodes[right].generator
         IN  IF left_gen = "const_gen" THEN right_gen
             ELSE IF right_gen = "const_gen" THEN left_gen
             ELSE IF left_gen = right_gen THEN left_gen
             ELSE IF GenParent(left_gen) = GenParent(right_gen)
                     /\ nodes[left].type = "PortIO"
                     /\ nodes[right].type = "PortIO" THEN GenParent(left_gen)
             ELSE right_gen

\* Expr::set_parent(): the owning scope of an expression over left, right
ExprParent(left, right) ==
    IF right = NoNode THEN nodes[left].generator
    ELSE LET left_gen == nodes[left].generator
             right_gen == nodes[right].generator
         IN  IF left_gen = "const_gen" THEN right_gen
             ELSE IF right_gen = "const_gen" THEN left_gen
             ELSE IF left_gen = right_gen THEN left_gen
             ELSE IF left_gen = GenParent(right_gen)
                     /\ nodes[right].type = "PortIO" THEN left_gen
             ELSE IF GenParent(left_gen) = GenParent(right_gen)
                     /\ nodes[left].type = "PortIO"
                     /\ nodes[right].type = "PortIO" THEN GenParent(left_gen)
             ELSE right_gen

\* Expr::Expr(Var *left, Var *right): the base object of a concatenation
ExprOfPair(cls, left, right) ==
    [Var(cls, "Expression", ExprParent(left, right), nodes[left].var_width,
         nodes[left].size, nodes[left].is_signed)
     EXCEPT !.op = "Add", !.left = left, !.right = right]

\* VarConcat::VarConcat(first, second), for a first operand that is a
\* VarConcat (its operand list is extended) and for one that is not
VarConcat(first, second) ==
    LET base == ExprOfPair("VarConcat", first, second)
        operands == IF nodes[first].cls = "VarConcat"
                    THEN Append(nodes[first].vars, second)
                    ELSE <<first, second>>
    IN  IF nodes[first].is_signed # nodes[second].is_signed
        THEN [status |-> "VarException", node |-> base]
        ELSE [status |-> "ok",
              node |-> [base EXCEPT
                          !.vars = operands,
                          !.var_width = width(nodes[first])
                                        + width(nodes[second]),
                          !.op = "Concat"]]

\* the loop of Var::concat over concat_vars_: the cached two-operand
\* concatenations of self whose last operand is v
CachedConcats(self, v) ==
    {c \in nodes[self].concat_vars :
        Len(nodes[c].vars) = 2 /\ nodes[c].vars[2] = v}

\* Var::concat(Var &var)
Var_concat(self, v) ==
    LET ctor == VarConcat(self, v) IN
    IF CachedConcats(self, v) # {}
    THEN /\ last' = Call("concat", self, <<v>>, "ok",
                         CHOOSE c \in CachedConcats(self, v) : TRUE)
         /\ UNCHANGED <<nodes, stmts>>
    ELSE IF ctor.status # "ok"
    THEN /\ last' = Call("concat", self, <<v>>, ctor.status, NoNode)
         /\ UNCHANGED <<nodes, stmts>>
    ELSE /\ Room
         /\ nodes' = [Alloc(ctor.node) EXCEPT
                        ![self].concat_vars = @ \cup {NewId}]
         /\ last' = Call("concat", self, <<v>>, "ok", NewId)
         /\ UNCHANGED stmts

\* VarConcat::concat(Var &var): the result is added to the concatenations
\* of the first operand, vars_[0]
VarConcat_concat(self, v) ==
    LET ctor == VarConcat(self, v) IN
    IF ctor.status # "ok"
    THEN /\ last' = Call("concat", self, <<v>>, ctor.status, NoNode)
         /\ UNCHANGED <<nodes, stmts>>
    ELSE /\ Room
         /\ nodes' = [Alloc(ctor.node) EXCEPT
                        ![nodes[self].vars[1]].concat_vars = @ \cup {NewId}]
         /\ last' = Call("concat", self, <<v>>, "ok", NewId)
         /\ UNCHANGED stmts

\* x.concat(var): the call reaches VarConcat::concat when the receiver is a
\* concatenation (as in a.concat(b).concat(c)) and Var::concat otherwise
Concat(self, v) ==
    IF nodes[self].cls = "VarConcat"
    THEN VarConcat_concat(self, v)
    ELSE Var_concat(self, v)

\* VarExtend::VarExtend without its test of the target width
VarExtendNoWidthCheck(p, w) ==
    LET parent == nodes[p]
        base == [Var("VarExtend", "Expression", ExprParent(p, NoNode),
                     width(parent), parent.size, parent.is_signed)
                 EXCEPT !.op = "Extend", !.left = p, !.parent_var = p]
    IN  IF \/ Len(parent.size) > 1
           \/ parent.size[1] > 1
           \/ (parent.is_packed /\ parent.type # "ConstValue")
        THEN [status |-> "VarException", node |-> base]
        ELSE [status |-> "ok",
              node |-> [base EXCEPT !.var_width = w,
                                    !.is_signed = parent.is_signed]]

\* VarExtend::VarExtend(var, width), on Expr::Expr(ExprOp::Extend, var, nullptr)
VarExtend(p, w) ==
    LET parent == nodes[p]
        base == [Var("VarExtend", "Expression", ExprParent(p, NoNode),
                     width(parent), parent.size, parent.is_signed)
                 EXCEPT !.op = "Extend", !.left = p, !.parent_var = p]
    IN  IF w < width(parent)
        THEN [status |-> "VarException", node |-> base]
        ELSE IF \/ Len(parent.size) > 1
                \/ parent.size[1] > 1
                \/ (parent.is_packed /\ parent.type # "ConstValue")
        THEN [status |-> "VarException", node |-> base]
        ELSE [status |-> "ok",
              node |-> [base EXCEPT !.var_width = w,
                                    !.is_signed = parent.is_signed]]

\* a cache keyed by k (extended_, casted_) is a set of <<key, node>> pairs
Cached(cache, k) == {e \in cache : e[1] = k}
CachedNode(cache, k) == (CHOOSE e \in cache : e[1] = k)[2]

\* Var::extend(uint32_t width)
Extend(self, w) ==
    LET ctor == VarExtend(self, w) IN
    IF Cached(nodes[self].extended, w) # {}
    THEN /\ last' = Call("extend", self, <<w>>, "ok",
                         CachedNode(nodes[self].extended, w))
         /\ UNCHANGED <<nodes, stmts>>
    ELSE IF ctor.status # "ok"
    THEN /\ last' = Call("extend", self, <<w>>, ctor.status, NoNode)
         /\ UNCHANGED <<nodes, stmts>>
    ELSE /\ Room
         /\ NumOf({"VarExtend"}) < MaxExtends
         /\ nodes' = [Alloc(ctor.node) EXCEPT
                        ![self].extended = @ \cup {<<w, NewId>>}]
         /\ last' = Call("extend", self, <<w>>, "ok", NewId)
         /\ UNCHANGED stmts

(***************************************************************************)
(* Operator expressions.                                                   *)
(***************************************************************************)
\* ExprOp by arity, as the operators of Var pass them to Generator::expr
BinaryOps == {"Minus", "Add", "Multiply", "Mod", "Divide",
              "LogicalShiftRight", "ShiftLeft", "Or", "And", "Xor",
              "SignedShiftRight", "LessThan", "GreaterThan", "LessEqThan",
              "GreaterEqThan", "Eq", "Neq"}
UnaryOps == {"Minus", "UInvert", "UPlus", "UOr", "UAnd", "UXor", "UNot"}

is_relational_op(op) ==
    op \in {"LessThan", "GreaterThan", "LessEqThan", "GreaterEqThan", "Eq"}

is_reduction_op(op) == op \in {"UOr", "UXor", "UAnd", "UNot"}

\* Expr::Expr(op, left, right) without its test of the operand widths
ExprNoWidthCheck(cls, op, left, right) ==
    LET l == nodes[left]
        base == [Var(cls, "Expression", ExprParent(left, right), l.var_width,
                     l.size, l.is_signed)
                 EXCEPT !.op = op, !.left = left, !.right = right]
    IN  [status |-> "ok",
         node |-> [base EXCEPT
                     !.var_width = IF is_relational_op(op)
                                      \/ is_reduction_op(op)
                                   THEN 1 ELSE width(l),
                     !.is_signed = IF right # NoNode
                                   THEN l.is_signed /\ nodes[right].is_signed
                                   ELSE l.is_signed]]

\* Expr::Expr(ExprOp op, Var *left, Var *right), for an object of class cls:
\* [status, node]
Expr(cls, op, left, right) ==
    LET l == nodes[left]
        base == [Var(cls, "Expression", ExprParent(left, right), l.var_width,
                     l.size, l.is_signed)
                 EXCEPT !.op = op, !.left = left, !.right = right]
    IN  IF right # NoNode /\ width(l) # width(nodes[right])
        THEN [status |-> "VarException", node |-> base]
        ELSE [status |-> "ok",
              node |-> [base EXCEPT
                          !.var_width = IF is_relational_op(op)
                                           \/ is_reduction_op(op)
                                        THEN 1 ELSE width(l),
                          !.is_signed = IF right # NoNode
                                        THEN l.is_signed
                                             /\ nodes[right].is_signed
                                        ELSE l.is_signed]]

\* an operator of Var (operator+, operator<, r_or, ...): the expression is
\* built by Generator::expr and kept by the scope of the left operand;
\* right is NoNode for a unary operator
Operator(op, left, right) ==
    LET ctor == Expr("Expr", op, left, right) IN
    IF ctor.status # "ok"
    THEN /\ last' = Call("expr", left, <<op, right>>, ctor.status, NoNode)
         /\ UNCHANGED <<nodes, stmts>>
    ELSE /\ Room
         /\ nodes' = Alloc(ctor.node)
         /\ last' = Call("expr", left, <<op, right>>, "ok", NewId)
         /\ UNCHANGED stmts

\* ConditionalExpr::ConditionalExpr(condition, left, right): [status, node]
ConditionalExpr(condition, left, right) ==
    LET base == Expr("ConditionalExpr", "Conditional", left, right) IN
    IF base.status # "ok" THEN base
    ELSE IF width(nodes[condition]) # 1
    THEN [status |-> "VarException", node |-> base.node]
    ELSE [status |-> "ok",
          node |-> [base.node EXCEPT !.condition = condition]]

\* the construction of a conditional expression
Conditional(condition, left, right) ==
    LET ctor == ConditionalExpr(condition, left, right) IN
    IF ctor.status # "ok"
    THEN /\ last' = Call("conditional", left, <<condition, right>>,
                         ctor.status, NoNode)
         /\ UNCHANGED <<nodes, stmts>>
    ELSE /\ Room
         /\ nodes' = Alloc(ctor.node)
         /\ last' = Call("conditional", left, <<condition, right>>, "ok",
                         NewId)
         /\ UNCHANGED stmts

(***************************************************************************)
(* Casts.                                                                  *)
(***************************************************************************)
VarCastType == {"Signed", "Unsigned", "Clock", "AsyncReset"}

\* VarCasted::VarCasted(parent, cast_type).  The base object is built by
\* Var(generator, "", width, true, parent->type()): the size is 1 and the
\* sign is the parent's type converted to bool, false for VarType::Base.
VarCasted(p, cast_type) ==
    LET parent == nodes[p]
        base == [Var("VarCasted", "BaseCasted", parent.generator,
                     width(parent), <<1>>, parent.type # "Base")
                 EXCEPT !.parent_var = p, !.cast_type = cast_type]
    IN  IF cast_type = "Signed"
        THEN [status |-> "ok", node |-> [base EXCEPT !.is_signed = TRUE]]
        ELSE IF cast_type = "Unsigned"
        THEN [status |-> "ok", node |-> [base EXCEPT !.is_signed = FALSE]]
        ELSE IF Len(parent.size) # 1 \/ parent.size[1] # 1
        THEN [status |-> "VarException", node |-> base]
        ELSE [status |-> "ok", node |-> base]

\* Var::cast without its lookup in casted_
CastNoLookup(self, cast_type) ==
    LET ctor == VarCasted(self, cast_type) IN
    IF cast_type = "Signed" /\ nodes[self].is_signed
    THEN /\ last' = Call("cast", self, <<cast_type>>, "ok", self)
         /\ UNCHANGED <<nodes, stmts>>
    ELSE IF ctor.status # "ok"
    THEN /\ last' = Call("cast", self, <<cast_type>>, ctor.status, NoNode)
         /\ UNCHANGED <<nodes, stmts>>
    ELSE /\ NumOf(DerivedCls) < MaxDerived
         /\ NumOf({"VarCasted"}) < MaxCasts
         /\ nodes' = [Append(nodes, ctor.node) EXCEPT
                        ![self].casted = @ \cup {<<cast_type, Len(nodes) + 1>>}]
         /\ last' = Call("cast", self, <<cast_type>>, "ok", Len(nodes) + 1)
         /\ UNCHANGED stmts

\* Var::cast(VarCastType cast_type)
Cast(self, cast_type) ==
    LET ctor == VarCasted(self, cast_type) IN
    IF cast_type = "Signed" /\ nodes[self].is_signed
    THEN /\ last' = Call("cast", self, <<cast_type>>, "ok", self)
         /\ UNCHANGED <<nodes, stmts>>
    ELSE IF Cached(nodes[self].casted, cast_type) # {}
    THEN /\ last' = Call("cast", self, <<cast_type>>, "ok",
                         CachedNode(nodes[self].casted, cast_type))
         /\ UNCHANGED <<nodes, stmts>>
    ELSE IF ctor.status # "ok"
    THEN /\ last' = Call("cast", self, <<cast_type>>, ctor.status, NoNode)
         /\ UNCHANGED <<nodes, stmts>>
    ELSE /\ Room
         /\ NumOf({"VarCasted"}) < MaxCasts
         /\ nodes' = [Alloc(ctor.node) EXCEPT
                        ![self].casted = @ \cup {<<cast_type, NewId>>}]
         /\ last' = Call("cast", self, <<cast_type>>, "ok", NewId)
         /\ UNCHANGED stmts

(***************************************************************************)
(* Link sets and assignment statements.                                    *)
(***************************************************************************)
ConstCls == {"Const", "EnumConst", "Param"}

\* the walk of VarSlice::add_sink / add_source up to the first ancestor that
\* is not of type Slice
RECURSIVE SliceRoot(_)
SliceRoot(i) ==
    IF nodes[nodes[i].parent_var].type = "Slice"
    THEN SliceRoot(nodes[i].parent_var)
    ELSE nodes[i].parent_var

\* Var::add_sink by class: the nodes on which the call ends, that is, the
\* objects whose own add_sink is Var::add_sink or Const::add_sink
RECURSIVE SinkLeaves(_)
SinkLeaves(i) ==
    LET n == nodes[i] IN
    CASE n.cls \in {"VarSlice", "PackedSlice"} -> SinkLeaves(SliceRoot(i))
      [] n.cls = "VarVarSlice" ->
            SinkLeaves(SliceRoot(i)) \cup SinkLeaves(n.sliced_var)
      [] n.cls = "VarConcat" ->
            UNION {SinkLeaves(n.vars[k]) : k \in DOMAIN n.vars}
      [] n.cls \in {"VarExtend", "VarCasted"} -> SinkLeaves(n.parent_var)
      [] n.cls = "Expr" ->
            SinkLeaves(n.left) \cup
            (IF n.right = NoNode THEN {} ELSE SinkLeaves(n.right))
      [] n.cls = "ConditionalExpr" ->
            SinkLeaves(n.condition) \cup SinkLeaves(n.left)
            \cup SinkLeaves(n.right)
      [] OTHER -> {i}

\* Var::add_source by class: the nodes on which the call ends
RECURSIVE SourceLeaves(_)
SourceLeaves(i) ==
    LET n == nodes[i] IN
    CASE n.cls \in {"VarSlice", "PackedSlice"} -> SourceLeaves(SliceRoot(i))
      [] n.cls = "VarVarSlice" ->
            SourceLeaves(SliceRoot(i)) \cup SourceLeaves(n.sliced_var)
      [] n.cls = "VarConcat" ->
            UNION {SourceLeaves(n.vars[k]) : k \in DOMAIN n.vars}
      [] OTHER -> {i}

\* Const::add_source and VarExtend::add_source throw
AddSourceStatus(i) ==
    IF \E k \in SourceLeaves(i) : nodes[k].cls \in ConstCls
    THEN "VarException"
    ELSE IF \E k \in SourceLeaves(i) : nodes[k].cls = "VarExtend"
    THEN "StmtException"
    ELSE "ok"

\* Const::add_sink(stmt): the constant is not linked; it moves to the scope
\* above the sink's scope when there is one
ConstAddSink(n, left) ==
    IF GenParent(nodes[left].generator) # NoGen
    THEN [n EXCEPT !.generator = GenParent(nodes[left].generator)]
    ELSE n

\* Var::add_sink / Var::add_source of the base class: the statement joins
\* the link set
VarAddSink(n, stmt) == [n EXCEPT !.sinks = @ \cup {stmt}]
VarAddSource(n, stmt) == [n EXCEPT !.sources = @ \cup {stmt}]

\* the graph after right->add_sink(stmt) and left->add_source(stmt)
Linked(left, right, stmt) ==
    [i \in DOMAIN nodes |->
        LET n1 == IF i \in SinkLeaves(right)
                  THEN IF nodes[i].cls \in ConstCls
                       THEN ConstAddSink(nodes[i], left)
                       ELSE VarAddSink(nodes[i], stmt)
                  ELSE nodes[i]
        IN  IF i \in SourceLeaves(left) THEN VarAddSource(n1, stmt) ELSE n1]

\* AssignStmt::AssignStmt(left, right, type): the statement, owned by no
\* scope yet
AssignStmt(left, right) ==
    [left |-> left, right |-> right, assign_type |-> "Undefined",
     parent |-> NoGen]

\* Var::is_enum()
is_enum(n) == n.cls \in {"EnumVar", "EnumConst"}

\* the checks of EnumVar::assign before it calls Var::assign
EnumAssignStatus(self, v) ==
    IF ~is_enum(nodes[v]) THEN "VarException"
    ELSE IF nodes[v].enum_type # nodes[self].enum_type THEN "VarException"
    ELSE "ok"

\* the checks of Var::assign (and of its overrides VarCasted::assign and
\* EnumVar::assign) before the statement is built
AssignStatusNoExprCheck(self, v) ==
    IF nodes[self].cls = "VarCasted" THEN "VarException"
    ELSE IF nodes[self].cls = "EnumVar" /\ EnumAssignStatus(self, v) # "ok"
    THEN "VarException"
    ELSE IF nodes[self].type = "ConstValue" THEN "VarException"
    ELSE "ok"

AssignStatus(self, v) ==
    IF nodes[self].cls = "VarCasted" THEN "VarException"
    ELSE IF nodes[self].cls = "EnumVar" /\ EnumAssignStatus(self, v) # "ok"
    THEN "VarException"
    ELSE IF nodes[self].type = "ConstValue" THEN "VarException"
    ELSE IF nodes[self].type = "Expression" THEN "VarException"
    ELSE "ok"

\* Var::assign(var): self is the sink (left), v the source (right)
Assign(self, v) ==
    LET chk == AssignStatus(self, v)
        reg == AddSourceStatus(self)
        stmt == Len(stmts) + 1
    IN  IF chk # "ok"
        THEN /\ last' = Call("assign", self, <<v>>, chk, NoNode)
             /\ UNCHANGED <<nodes, stmts>>
        ELSE IF reg # "ok"
        THEN /\ last' = Call("assign", self, <<v>>, reg, NoNode)
             /\ UNCHANGED <<nodes, stmts>>
        ELSE /\ Len(stmts) < MaxStmts
             /\ stmts' = Append(stmts, AssignStmt(self, v))
             /\ nodes' = Linked(self, v, stmt)
             /\ last' = Call("assign", self, <<v>>, "ok", stmt)

\* Generator::remove_stmt(stmt): the statement leaves its scope
remove_stmt(stmt) == [stmt EXCEPT !.parent = NoGen]

\* Var::unassign(stmt)
Unassign(self, stmt) ==
    /\ nodes' = [i \in DOMAIN nodes |->
                   LET n1 == IF i = stmts[stmt].right
                             THEN [nodes[i] EXCEPT !.sinks = @ \ {stmt}]
                             ELSE nodes[i]
                   IN  IF i = self
                       THEN [n1 EXCEPT !.sources = @ \ {stmt}]
                       ELSE n1]
    /\ stmts' = [stmts EXCEPT ![stmt] = remove_stmt(@)]
    /\ last' = Call("unassign", self, <<stmt>>, "ok", NoNode)

(***************************************************************************)
(* Merging the identity of two signals.                                    *)
(***************************************************************************)
\* the sequence of the members of set S in the order of sequence ord
RECURSIVE InOrder(_, _)
InOrder(S, ord) ==
    IF ord = <<>> THEN <<>>
    ELSE IF Head(ord) \in S THEN <<Head(ord)>> \o InOrder(S, Tail(ord))
    ELSE InOrder(S, Tail(ord))

\* VarSlice::set_parent(Var*) and VarCasted::set_parent(Var*): the view now
\* refers to signal p
set_parent(n, p) == [n EXCEPT !.parent_var = p]

\* VarConcat::replace_var(target, item): the first occurrence of target in
\* the operand list becomes item
replace_var(n, target, item) ==
    IF \E k \in DOMAIN n.vars : n.vars[k] = target
    THEN LET pos == CHOOSE k \in DOMAIN n.vars :
                        /\ n.vars[k] = target
                        /\ \A j \in 1 .. k - 1 : n.vars[j] # target
         IN  [n EXCEPT !.vars[pos] = item]
    ELSE n

\* std::map::emplace of the entries of cache from into cache to: an entry
\* whose key is already in to is not inserted
Emplaced(to, from) ==
    to \cup {e \in from : Cached(to, e[1]) = {}}

\* Var::move_linked_to(new_var) called on node self of graph ns:
\* [status, nodes].  ord is the order in which concat_vars_ is iterated.
RECURSIVE move_linked_to(_, _, _, _)
RECURSIVE MoveConcats(_, _, _, _, _)
move_linked_to(ns, self, new_var, ord) ==
    IF width(ns[new_var]) # width(ns[self])
    THEN [status |-> "VarException", nodes |-> ns]
    ELSE IF ns[new_var].is_signed # ns[self].is_signed
    THEN [status |-> "VarException", nodes |-> ns]
    ELSE
    LET \* slices: re-parented, copied to new_var, cleared here
        s1 == [i \in DOMAIN ns |->
                 IF i \in ns[self].slices THEN set_parent(ns[i], new_var)
                 ELSE ns[i]]
        s2 == [s1 EXCEPT ![new_var].slices = s1[self].slices]
        s3 == [s2 EXCEPT ![self].slices = {}]
        \* concatenations
        c1 == MoveConcats(s3, InOrder(s3[self].concat_vars, ord), self,
                          new_var, ord)
        c2 == [c1.nodes EXCEPT ![new_var].concat_vars =
                                    c1.nodes[self].concat_vars]
        c3 == [c2 EXCEPT ![self].concat_vars = {}]
        \* casts
        k1 == [i \in DOMAIN c3 |->
                 IF \E e \in c3[self].casted : e[2] = i
                 THEN set_parent(c3[i], new_var)
                 ELSE c3[i]]
        k2 == [k1 EXCEPT ![new_var].casted =
                              Emplaced(k1[new_var].casted, k1[self].casted)]
        k3 == [k2 EXCEPT ![self].casted = {}]
    IN  IF c1.status # "ok" THEN c1
        ELSE [status |-> "ok", nodes |-> k3]

\* the loop over concat_vars_: concat->move_linked_to(new_var), then
\* concat->replace_var(this, new_var)
MoveConcats(ns, concats, self, new_var, ord) ==
    IF concats = <<>> THEN [status |-> "ok", nodes |-> ns]
    ELSE LET concat == Head(concats)
             r == move_linked_to(ns, concat, new_var, ord)
         IN  IF r.status # "ok" THEN r
             ELSE MoveConcats(
                    [r.nodes EXCEPT
                        ![concat] = replace_var(@, self, new_var)],
                    Tail(concats), self, new_var, ord)

\* the orders in which the concatenations of the graph may be iterated
ConcatOrders ==
    LET concats == {i \in DOMAIN nodes : nodes[i].cls = "VarConcat"} IN
    {ord \in [1 .. Cardinality(concats) -> concats] :
        \A i, j \in DOMAIN ord : ord[i] = ord[j] => i = j}

\* old.move_linked_to(new_var), the call
MoveLinkedTo(old, new_var) ==
    \E ord \in ConcatOrders :
        LET r == move_linked_to(nodes, old, new_var, ord) IN
        /\ nodes' = r.nodes
        /\ last' = Call("move_linked_to", old, <<new_var>>, r.status, NoNode)
        /\ UNCHANGED stmts

(***************************************************************************)
(* Relocation of the assignments of a signal.  The functions below work on *)
(* a record st = [status, nodes, stmts, var]: the exception thrown so far  *)
(* ("ok" when none), the graph, the statements, and the operand that a     *)
(* function taking a reference (Var *&) leaves in it.                      *)
(***************************************************************************)
\* the rest of a function body runs only when nothing was thrown before; st
\* is evaluated once, as the statements of the code are
Then(st, F(_)) ==
    CHOOSE r \in {IF s.status # "ok" THEN s ELSE F(s) : s \in {st}} : TRUE

\* Generator::add_stmt(stmt): the statement joins the scope
add_stmt(stmt, generator) == [stmt EXCEPT !.parent = generator]

\* the first ancestor of node i that is not of type Slice (i when it is none)
RECURSIVE RootOf(_, _)
RootOf(ns, i) ==
    IF ns[i].type = "Slice" THEN RootOf(ns, ns[i].parent_var) ELSE i

\* VarSlice::slice_var(var): the slice s made again on node v, by
\* Var::operator[] with the bounds (or the index signal) of s
slice_var(st, s, v) ==
    LET ns == st.nodes
        id == Len(ns) + 1
        byvar == ns[s].cls = "VarVarSlice"
        chk == IF byvar THEN "ok"
               ELSE SliceBounds(ns[v], ns[s].high, ns[s].low)
        made == IF byvar THEN VarVarSliceIn(ns, v, ns[s].sliced_var)
                ELSE VarSliceIn(ns, v, ns[s].high, ns[s].low)
    IN  IF chk # "ok" THEN [st EXCEPT !.status = chk]
        ELSE CHOOSE r \in
                {IF ctor.status # "ok"
                 THEN [st EXCEPT !.status = ctor.status]
                 ELSE [st EXCEPT
                         !.nodes = [Append(ns, ctor.node) EXCEPT
                                       ![v].slices = @ \cup {id}],
                         !.var = id] : ctor \in {made}} : TRUE

\* the loop of set_var_parent over the reversed chain of slices: the chain
\* of node i is made again on new_var, the slice next to the root first
RECURSIVE ResliceChain(_, _, _)
ResliceChain(st, i, new_var) ==
    IF st.nodes[i].type # "Slice" THEN [st EXCEPT !.var = new_var]
    ELSE CHOOSE r \in {IF up.status # "ok" THEN up
                       ELSE slice_var(up, i, up.var) :
                       up \in {ResliceChain(st, st.nodes[i].parent_var,
                                            new_var)}} : TRUE

\* set_var_parent(Var *&var, target, new_var, check_target), for a var of
\* type Slice
set_var_parent(st, var, target, new_var, check_target) ==
    IF RootOf(st.nodes, var) # target
    THEN IF check_target
         THEN [st EXCEPT !.status = "InternalException", !.var = var]
         ELSE [st EXCEPT !.var = var]
    ELSE ResliceChain(st, var, new_var)

\* x->move_linked_to(new_var) inside st
MoveLinkedIn(st, x, new_var, ord) ==
    Then(st, LAMBDA s :
        Then([s EXCEPT !.nodes = move_linked_to(s.nodes, x, new_var, ord)],
             LAMBDA r : [r EXCEPT !.status = r.nodes.status,
                                  !.nodes = r.nodes.nodes]))

(***************************************************************************)
(* A relocation is run as a list of work items, the head first.  An item   *)
(* is a call or a statement of the code that is still to run:              *)
(*   "stmt_set"        stmt_set_left / stmt_set_right on statement id      *)
(*   "change_var_expr" statement number step of change_var_expr on the     *)
(*                     expression id                                       *)
(*   "replace"         the operand becomes new_var, which is then moved    *)
(*                     onto itself                                         *)
(*   "set_var_parent"  set_var_parent on the operand                       *)
(*   "replace_var"     VarConcat::replace_var on the concatenation id      *)
(*   "throw"           throw InternalException("Target not found")         *)
(*   "add"             new_var->add_source / add_sink of statement id and  *)
(*                     the pick of a parameter                             *)
(*   "clear"           var->sources_.clear() / var->sinks_.clear()         *)
(*   "keep_connection" the new assignment between var and new_var          *)
(* The operand of an item is the left (on_left) or right operand of the    *)
(* statement id, or of the expression id when in_expr.                     *)
(***************************************************************************)
Item(k, in_expr, id, on_left, step, check) ==
    [k |-> k, in_expr |-> in_expr, id |-> id, on_left |-> on_left,
     step |-> step, check |-> check]

Operand(st, w) ==
    IF w.in_expr
    THEN IF w.on_left THEN st.nodes[w.id].left ELSE st.nodes[w.id].right
    ELSE IF w.on_left THEN st.stmts[w.id].left ELSE st.stmts[w.id].right

SetOperand(st, w, v) ==
    IF w.in_expr
    THEN IF w.on_left THEN [st EXCEPT !.nodes[w.id].left = v]
         ELSE [st EXCEPT !.nodes[w.id].right = v]
    ELSE IF w.on_left THEN [st EXCEPT !.stmts[w.id].left = v]
         ELSE [st EXCEPT !.stmts[w.id].right = v]

\* stmt_set_right / stmt_set_left(stmt, target, new_var): the work of item w
\* by the type of the operand.  After stmt->set_right(new_var) the reference
\* `right` is to new_var, so right->move_linked_to(new_var) is called on
\* new_var itself ("replace").
stmt_set(st, w, target) ==
    LET operand == Operand(st, w)
        type == st.nodes[operand].type
    IN  IF type \in {"Base", "PortIO", "ConstValue"}
        THEN IF operand = target THEN <<[w EXCEPT !.k = "replace"]>>
             ELSE <<[w EXCEPT !.k = "throw"]>>
        ELSE IF type = "Slice"
        THEN <<[w EXCEPT !.k = "set_var_parent", !.check = TRUE]>>
        ELSE IF type = "Expression"
        THEN <<Item("change_var_expr", TRUE, operand, TRUE, 1, FALSE)>>
        ELSE <<>>

\* change_var_expr(expr, target, new_var): the work of its statement number
\* w.step, followed by the rest of the body.  The statements are: 1, 2 the
\* recursion into a left and a right operand that are expressions; 3, 4 the
\* replacement of a left and a right operand that is target; 5, 6 the new
\* parent of a left and a right operand that is a slice; 7 the update of a
\* concatenation.
change_var_expr(st, w, target) ==
    IF w.step > 7 THEN <<>>
    ELSE LET at == [w EXCEPT !.on_left = w.step \in {1, 3, 5}]
             operand == Operand(st, at)
             type == IF operand = NoNode THEN ""
                     ELSE st.nodes[operand].type
             now ==
                 CASE w.step \in {1, 2} /\ type = "Expression" ->
                        <<Item("change_var_expr", TRUE, operand, TRUE, 1,
                               FALSE)>>
                   [] w.step \in {3, 4} /\ operand = target ->
                        <<[at EXCEPT !.k = "replace"]>>
                   [] w.step \in {5, 6} /\ type = "Slice" ->
                        <<[at EXCEPT !.k = "set_var_parent",
                                     !.check = FALSE]>>
                   [] w.step = 7 /\ st.nodes[w.id].op = "Concat" ->
                        <<[w EXCEPT !.k = "replace_var"]>>
                   [] OTHER -> <<>>
         IN  now \o <<[w EXCEPT !.step = @ + 1]>>

\* new_var->add_sink(stmt) inside st; the nodes on which the call ends are
\* those of the graph before the relocation, which does not rebuild new_var
AddSinkIn(st, new_var, stmt) ==
    LET left == st.nodes[st.stmts[stmt].left] IN
    [st EXCEPT !.nodes =
        [i \in DOMAIN st.nodes |->
            IF i \in DOMAIN nodes /\ i \in SinkLeaves(new_var)
            THEN IF st.nodes[i].cls \in ConstCls
                 THEN IF GenParent(left.generator) # NoGen
                      THEN [st.nodes[i] EXCEPT
                               !.generator = GenParent(left.generator)]
                      ELSE st.nodes[i]
                 ELSE VarAddSink(st.nodes[i], stmt)
            ELSE st.nodes[i]]]

\* new_var->add_source(stmt) inside st
AddSourceIn(st, new_var, stmt) ==
    IF AddSourceStatus(new_var) # "ok"
    THEN [st EXCEPT !.status = AddSourceStatus(new_var)]
    ELSE [st EXCEPT !.nodes =
            [i \in DOMAIN st.nodes |->
                IF i \in DOMAIN nodes /\ i \in SourceLeaves(new_var)
                THEN VarAddSource(st.nodes[i], stmt)
                ELSE st.nodes[i]]]

\* "pick a source parameter, if any": new_var->set_width_param(param) when
\* the other side of the statement is parametrized and new_var is not
PickParam(st, other, new_var) ==
    LET param == st.nodes[other].param IN
    IF param = NoNode \/ st.nodes[new_var].param # NoNode THEN st
    ELSE IF st.nodes[param].value <= 0
    THEN [st EXCEPT !.status = "VarException"]
    ELSE [st EXCEPT !.nodes[new_var].var_width = st.nodes[param].value,
                    !.nodes[new_var].param = param,
                    !.nodes[param].param_vars = @ \cup {new_var}]

\* keep_connection: left->assign(right) inside st, the statement added to
\* the scope parent
KeepConnection(st, left, right, parent) ==
    LET chk == AssignStatus(left, right)
        stmt == Len(st.stmts) + 1
        made == [st EXCEPT
                   !.stmts = Append(@, add_stmt(AssignStmt(left, right),
                                                parent)),
                   !.var = stmt]
    IN  IF chk # "ok" THEN [st EXCEPT !.status = chk]
        ELSE IF AddSourceStatus(left) # "ok"
        THEN [st EXCEPT !.status = AddSourceStatus(left)]
        ELSE Then(Then(made, LAMBDA s : AddSinkIn(s, right, stmt)),
                  LAMBDA s : AddSourceIn(s, left, stmt))

\* the orders in which a set of statements may be walked
StmtOrders ==
    {ord \in [1 .. Len(stmts) -> 1 .. Len(stmts)] :
        \A i, j \in DOMAIN ord : i # j => ord[i] # ord[j]}

\* the effect of an item that is one statement of the code
Exec(st, w, side, var, new_var, parent, ord) ==
    CASE w.k = "replace" ->
            MoveLinkedIn(SetOperand(st, w, new_var), new_var, new_var, ord)
      [] w.k = "throw" -> [st EXCEPT !.status = "InternalException"]
      [] w.k = "set_var_parent" ->
            Then(set_var_parent(st, Operand(st, w), var, new_var, w.check),
                 LAMBDA r : SetOperand(r, w, r.var))
      [] w.k = "replace_var" ->
            [st EXCEPT !.nodes[w.id] = replace_var(@, var, new_var)]
      [] w.k = "add" ->
            Then(IF side = "left" THEN AddSourceIn(st, new_var, w.id)
                 ELSE AddSinkIn(st, new_var, w.id),
                 LAMBDA s :
                    PickParam(s, IF side = "left" THEN s.stmts[w.id].right
                                 ELSE s.stmts[w.id].left, new_var))
      [] w.k = "clear" ->
            IF side = "left" THEN [st EXCEPT !.nodes[var].sources = {}]
            ELSE [st EXCEPT !.nodes[var].sinks = {}]
      [] w.k = "keep_connection" ->
            IF side = "left" THEN KeepConnection(st, var, new_var, parent)
            ELSE KeepConnection(st, new_var, var, parent)

\* the run of a work list, up to the first exception
RECURSIVE Run(_, _, _, _, _, _, _)
Run(st, work, side, var, new_var, parent, ord) ==
    IF work = <<>> \/ st.status # "ok" THEN st
    ELSE LET w == Head(work)
             calls == CASE w.k = "stmt_set" -> stmt_set(st, w, var)
                        [] w.k = "change_var_expr" ->
                              change_var_expr(st, w, var)
                        [] OTHER -> <<>>
             after == IF w.k \in {"stmt_set", "change_var_expr"} THEN st
                      ELSE Exec(st, w, side, var, new_var, parent, ord)
         IN  CHOOSE r \in {Run(s, calls \o Tail(work), side, var, new_var,
                               parent, ord) : s \in {after}} : TRUE

\* the body of move_src_to (side "left") and of move_sink_to (side "right"):
\* the loop over the statements todo of var, in the order the set yields
\* them, the clearing and the new assignment
RECURSIVE MoveLoop(_, _)
MoveLoop(side, todo) ==
    IF todo = <<>> THEN <<>>
    ELSE <<Item("stmt_set", FALSE, Head(todo), side = "left", 0, FALSE),
           Item("add", FALSE, Head(todo), side = "left", 0, FALSE)>>
         \o MoveLoop(side, Tail(todo))

\* Var::move_src_to (side "left") and Var::move_sink_to (side "right")
Move(side, var, new_var, parent, keep_connection) ==
    \E ord \in ConcatOrders, sord \in StmtOrders :
        LET op == IF side = "left" THEN "move_src_to" ELSE "move_sink_to"
            st0 == [status |-> "ok", nodes |-> nodes, stmts |-> stmts,
                    var |-> NoNode]
            mine == IF side = "left" THEN nodes[var].sources
                    ELSE nodes[var].sinks
            todo == InOrder({s \in mine : stmts[s].parent = parent}, sord)
            body == MoveLoop(side, todo)
                    \o <<Item("clear", FALSE, NoNode, FALSE, 0, FALSE)>>
                    \o IF keep_connection
                       THEN <<Item("keep_connection", FALSE, NoNode, FALSE,
                                   0, FALSE)>>
                       ELSE <<>>
            args == <<new_var, parent, keep_connection>>
        IN  IF nodes[var].type \in {"Expression", "ConstValue"}
            THEN /\ last' = Call(op, var, args, "VarException", NoNode)
                 /\ UNCHANGED <<nodes, stmts>>
            ELSE \E end \in {Run(st0, body, side, var, new_var, parent,
                                 ord)} :
                 /\ nodes' = end.nodes
                 /\ stmts' = end.stmts
                 /\ last' = Call(op, var, args, end.status, NoNode)

\* Var::move_src_to(var, new_var, parent, keep_connection)
MoveSrcTo(var, new_var, parent, keep_connection) ==
    Move("left", var, new_var, parent, keep_connection)

\* Var::move_sink_to(var, new_var, parent, keep_connection)
MoveSinkTo(var, new_var, parent, keep_connection) ==
    Move("right", var, new_var, parent, keep_connection)

\* Generator::add_stmt(stmt) on an assignment no scope owns yet
AddStmt(generator, stmt) ==
    /\ stmts[stmt].parent = NoGen
    /\ stmts' = [stmts EXCEPT ![stmt] = add_stmt(@, generator)]
    /\ last' = Call("add_stmt", NoNode, <<generator, stmt>>, "ok", NoNode)
    /\ UNCHANGED nodes

(***************************************************************************)
(* Parameters.                                                             *)
(***************************************************************************)
\* The machine word.  The code computes the range of a constant in 64-bit
\* words; the model keeps the arithmetic and scales the word to WordBits.
Word == 2 ^ WordBits

\* std::memcpy between int64_t and uint64_t: the same bits read as unsigned
\* and as signed
ToUnsigned(v) == v % Word
ToSigned(u) == IF u >= Word \div 2 THEN u - Word ELSE u

\* u << k on an unsigned word
Shl(u, k) == (u * 2 ^ k) % Word

\* the range test without the reading of the value as unsigned
ConstRangeSignedCompare(value, w, is_signed) ==
    IF is_signed
    THEN IF value < ToSigned(Shl(Word - 1, w - 1)) THEN "UserException"
         ELSE IF value > ToSigned((Shl(1, w - 1) - 1) % Word)
         THEN "UserException"
         ELSE "ok"
    ELSE IF value > (Shl(1, w) - 1) % Word THEN "UserException" ELSE "ok"

\* the range test of Const::Const(generator, value, width, is_signed)
ConstRange(value, w, is_signed) ==
    IF is_signed
    THEN LET min == ToSigned(Shl(Word - 1, w - 1))
             max == ToSigned((Shl(1, w - 1) - 1) % Word)
         IN  IF value < min THEN "UserException"
             ELSE IF value > max THEN "UserException"
             ELSE "ok"
    ELSE LET max == (Shl(1, w) - 1) % Word
             unsigned_value == ToUnsigned(value)
         IN  IF unsigned_value > max THEN "UserException" ELSE "ok"

\* the constructor does not throw: the value fits the width
Fits(value, w, is_signed) == ConstRange(value, w, is_signed) = "ok"

\* Param::Param(m, name, width, is_signed): a constant of value 0 whose type
\* is VarType::Parameter
Param(generator, w, sg) ==
    [Var("Param", "Parameter", generator, w, <<1>>, sg)
        EXCEPT !.is_packed = TRUE, !.value = 0]

\* Const::set_value(new_value): the value is kept when the new one does not
\* fit (the UserException of the range test is caught)
Const_set_value(n, new_value) ==
    IF Fits(new_value, width(n), n.is_signed)
    THEN [n EXCEPT !.value = new_value]
    ELSE n

\* Param::set_value(int64_t new_value) on graph ns: [status, nodes].  ord is
\* the order in which the sets of parameters are iterated, active the
\* parameters whose call is on the stack.  A call that reaches a parameter
\* of the stack meets the values it has written already and takes the same
\* path again: the recursion has no end ("NoReturn").
RECURSIVE Param_set_value(_, _, _, _, _)
RECURSIVE SetChain(_, _, _, _, _)
Param_set_value(ns, p, new_value, ord, active) ==
    IF new_value <= 0 /\ ns[p].param_vars # {}
    THEN [status |-> "VarException", nodes |-> ns]
    ELSE IF p \in active
    THEN [status |-> "NoReturn", nodes |-> ns]
    ELSE LET valued == [ns EXCEPT ![p] = Const_set_value(@, new_value)]
             \* change the width of parametrized variables
             sized == [i \in DOMAIN valued |->
                         IF i \in ns[p].param_vars
                         THEN [valued[i] EXCEPT !.var_width = new_value]
                         ELSE valued[i]]
         IN  \* change the entire chain
             SetChain(sized, InOrder(ns[p].param_params, ord), new_value, ord,
                      active \cup {p})

SetChain(ns, params, new_value, ord, active) ==
    IF params = <<>> THEN [status |-> "ok", nodes |-> ns]
    ELSE LET r == Param_set_value(ns, Head(params), new_value, ord, active)
         IN  IF r.status # "ok" THEN r
             ELSE SetChain(r.nodes, Tail(params), new_value, ord, active)

\* the orders in which a set of the graph's parameters may be iterated
Orders ==
    LET params == {i \in DOMAIN nodes : nodes[i].cls = "Param"} IN
    {ord \in [1 .. Cardinality(params) -> params] :
        \A i, j \in DOMAIN ord : ord[i] = ord[j] => i = j}

\* p.set_value(new_value), the call
SetValue(p, new_value) ==
    \E ord \in Orders :
        LET r == Param_set_value(nodes, p, new_value, ord, {}) IN
        /\ nodes' = r.nodes
        /\ last' = Call("set_value", p, <<new_value>>, r.status, NoNode)
        /\ UNCHANGED stmts

\* the parameters reached from parameter p along param_params_
RECURSIVE Chained(_, _)
Chained(ns, p) ==
    ns[p].param_params \cup UNION {Chained(ns, q) : q \in ns[p].param_params}

\* Param::set_value(const std::shared_ptr<Param> &param): self follows param
SetValueParam(self, param) ==
    /\ nodes' = [nodes EXCEPT ![param].param_params = @ \cup {self},
                              ![self].parent_param = param]
    /\ last' = Call("set_value_param", self, <<param>>, "ok", NoNode)
    /\ UNCHANGED stmts

\* Var::set_width_param(Param *param)
SetWidthParam(self, param) ==
    IF nodes[param].value <= 0
    THEN /\ last' = Call("set_width_param", self, <<param>>, "VarException",
                         NoNode)
         /\ UNCHANGED <<nodes, stmts>>
    ELSE /\ nodes' = [nodes EXCEPT
                        ![self].var_width = nodes[param].value,
                        ![self].param = param,
                        ![param].param_vars = @ \cup {self}]
         /\ last' = Call("set_width_param", self, <<param>>, "ok", NoNode)
         /\ UNCHANGED stmts

(***************************************************************************)
(* Root signals: what Generator::var builds, a Var of type Base.           *)
(***************************************************************************)
Sizes == {<<d>> : d \in 1 .. MaxDim} \cup
         {<<d1, d2>> : d1 \in 2 .. MaxDim, d2 \in 2 .. MaxDim}

BaseVars(generator) ==
    {Var("Var", "Base", generator, w, sz, sg) :
        w \in 1 .. MaxWidth, sz \in Sizes, sg \in BOOLEAN}

\* Var::set_explicit_array(true) on a scalar root
ExplicitScalars(generator) ==
    {[Var("Var", "Base", generator, w, <<1>>, FALSE)
        EXCEPT !.explicit_array = TRUE] : w \in 1 .. MaxWidth}

\* VarPackedStruct::VarPackedStruct: a scalar whose width is the sum of the
\* widths of its fields; a struct is always packed (set_is_packed(false)
\* throws)
RECURSIVE Sum(_)
Sum(s) == IF s = <<>> THEN 0 ELSE Head(s) + Sum(Tail(s))

VarPackedStruct(generator, field_widths) ==
    [Var("VarPackedStruct", "Base", generator, 0, <<1>>, FALSE)
        EXCEPT !.var_width = Sum(field_widths), !.is_packed = TRUE]

\* PackedStruct::PackedStruct(struct_name, attributes): the layout table, a
\* sequence of (name, width, is_signed)
Attribute(name, w, is_signed) ==
    [name |-> name, width |-> w, is_signed |-> is_signed]

\* VarPackedStruct::VarPackedStruct(m, name, packed_struct_)
RECURSIVE AttributeWidths(_)
AttributeWidths(attributes) ==
    IF attributes = <<>> THEN <<>>
    ELSE <<Head(attributes).width>> \o AttributeWidths(Tail(attributes))

VarPackedStructOf(generator, attributes) ==
    [VarPackedStruct(generator, AttributeWidths(attributes))
        EXCEPT !.attributes = attributes]

\* PackedSlice::set_up(struct_, member_name) on node n, the loop from the
\* attributes left and the running low_: [status, node]
RECURSIVE set_up(_, _, _, _)
set_up(n, attributes, member_name, low_) ==
    IF attributes = <<>> THEN [status |-> "InternalException", node |-> n]
    ELSE LET a == Head(attributes) IN
         IF a.name = member_name
         THEN [status |-> "ok",
               node |-> [n EXCEPT !.high = a.width + low_ - 1,
                                  !.low = low_,
                                  !.is_signed = a.is_signed,
                                  !.var_high = a.width + low_ - 1,
                                  !.var_low = low_]]
         ELSE set_up(n, Tail(attributes), member_name, low_ + a.width)

\* PackedSlice::PackedSlice(VarPackedStruct *parent, member_name): a
\* VarSlice(parent, 0, 0) that set_up then re-bounds
PackedSlice(p, member_name) ==
    LET base == VarSlice(p, 0, 0)
        named == [base.node EXCEPT !.cls = "PackedSlice",
                                   !.member_name = member_name]
    IN  IF base.status # "ok" THEN base
        ELSE set_up(named, nodes[p].attributes, member_name, 0)

\* VarPackedStruct::operator[](member_name), the call
Member(p, member_name) ==
    LET ctor == PackedSlice(p, member_name)
        id == Len(nodes) + 1
    IN  IF ctor.status # "ok"
        THEN /\ last' = Call("member", p, <<member_name>>, ctor.status,
                             NoNode)
             /\ UNCHANGED <<nodes, stmts>>
        ELSE /\ nodes' = [Append(nodes, ctor.node)
                            EXCEPT ![p].slices = @ \cup {id}]
             /\ last' = Call("member", p, <<member_name>>, "ok", id)
             /\ UNCHANGED stmts

\* Const::constant(value, width, is_signed): a literal of the constant scope
\* (a constant is always packed: set_is_packed(false) throws)
Const(w, sg) ==
    [Var("Const", "ConstValue", "const_gen", w, <<1>>, sg)
        EXCEPT !.is_packed = TRUE]

\* the values of an enum definition (EnumConst::EnumConst) and a signal of
\* the enum's type (EnumVar)
EnumConst(generator, enum_type, w) ==
    [Var("EnumConst", "ConstValue", generator, w, <<1>>, FALSE)
        EXCEPT !.enum_type = enum_type, !.is_packed = TRUE]

EnumVar(generator, enum_type, w) ==
    [Var("EnumVar", "Base", generator, w, <<1>>, FALSE)
        EXCEPT !.enum_type = enum_type]

\* Const::constant(value, width, is_signed), the call: the constructor
\* throws when the value does not fit
Constant(value, w, is_signed) ==
    LET chk == ConstRange(value, w, is_signed) IN
    IF chk # "ok"
    THEN /\ last' = Call("constant", NoNode, <<value, w, is_signed>>, chk,
                         NoNode)
         /\ UNCHANGED <<nodes, stmts>>
    ELSE /\ nodes' = Append(nodes, [Const(w, is_signed)
                                      EXCEPT !.value = value])
         /\ last' = Call("constant", NoNode, <<value, w, is_signed>>, "ok",
                         Len(nodes) + 1)
         /\ UNCHANGED stmts

\* Const::set_value(new_value), the call on a constant that is not a
\* parameter: nothing is thrown to the caller
ConstSetValue(self, new_value) ==
    /\ nodes' = [nodes EXCEPT ![self] = Const_set_value(@, new_value)]
    /\ last' = Call("const_set_value", self, <<new_value>>, "ok", NoNode)
    /\ UNCHANGED stmts

\* a port of a scope: a signal of type VarType::PortIO
Port(generator, w, sg) == Var("Port", "PortIO", generator, w, <<1>>, sg)

NoCall == Call("", NoNode, <<>>, "ok", NoNode)

(***************************************************************************)
(* The slicing specification: one root signal of any shape, sliced and     *)
(* re-sliced.                                                              *)
(***************************************************************************)
InitSlice ==
    /\ \E r \in BaseVars("top") \cup ExplicitScalars("top") : nodes = <<r>>
    /\ stmts = <<>>
    /\ last = NoCall

NextSlice ==
    \E p \in DOMAIN nodes, high \in 0 .. MaxIdx, low \in 0 .. MaxIdx :
        Slice(p, high, low)

SpecSlice == InitSlice /\ [][NextSlice]_vars

(***************************************************************************)
(* The concatenation specification: two signals of any shape and sign,     *)
(* concatenated and chained in any order.                                  *)
(***************************************************************************)
DeriveRoots ==
    BaseVars("top") \cup
    {VarPackedStruct("top", <<1, 1>>), Const(MaxWidth, FALSE)}

ConcatOperands ==
    {Var("Var", "Base", "top", 1, <<1>>, FALSE),
     Var("Var", "Base", "top", 1, <<1>>, TRUE),
     Var("Var", "Base", "top", 1, <<MaxDim>>, FALSE)}

InitConcat ==
    /\ \E a \in DeriveRoots, b \in ConcatOperands : nodes = <<a, b>>
    /\ stmts = <<>>
    /\ last = NoCall

NextConcat ==
    \E self \in DOMAIN nodes, v \in DOMAIN nodes : Concat(self, v)

SpecConcat == InitConcat /\ [][NextConcat]_vars

(***************************************************************************)
(* The extension and cast specification: one signal of any shape, with     *)
(* its extensions and casts (and theirs).                                  *)
(***************************************************************************)
InitDerive ==
    /\ \E a \in DeriveRoots : nodes = <<a>>
    /\ stmts = <<>>
    /\ last = NoCall

ExtendStep ==
    \E self \in DOMAIN nodes, w \in 0 .. MaxIdx + 1 : Extend(self, w)

CastStep ==
    \E self \in DOMAIN nodes, k \in VarCastType : Cast(self, k)

NextDerive == ExtendStep \/ CastStep

SpecDerive == InitDerive /\ [][NextDerive]_vars

(***************************************************************************)
(* The assignment specification: a sink-side and a source-side root, the   *)
(* views built over them, and the assignments between any two nodes.       *)
(***************************************************************************)
AssignRoots ==
    {Var("Var", "Base", "top", MaxWidth, <<1>>, FALSE),
     Var("Var", "Base", "child", MaxWidth, <<1>>, FALSE),
     Const(MaxWidth, FALSE),
     EnumVar("top", "E1", MaxWidth),
     EnumVar("top", "E2", MaxWidth),
     EnumConst("top", "E1", MaxWidth),
     EnumConst("top", "E2", MaxWidth)}

InitAssign ==
    /\ \E a \in AssignRoots, b \in AssignRoots : nodes = <<a, b>>
    /\ stmts = <<>>
    /\ last = NoCall

ViewStep ==
    /\ NumOf(DerivedCls) < MaxViews
    /\ \/ \E p \in DOMAIN nodes, high \in 0 .. MaxIdx, low \in 0 .. MaxIdx :
            Slice(p, high, low)
       \/ \E self \in DOMAIN nodes, v \in DOMAIN nodes : Concat(self, v)
       \/ \E self \in DOMAIN nodes : Extend(self, MaxWidth)
       \/ \E self \in DOMAIN nodes, k \in VarCastType : Cast(self, k)

AssignStep ==
    \E self \in DOMAIN nodes, v \in DOMAIN nodes : Assign(self, v)

NextAssign == ViewStep \/ AssignStep

SpecAssign == InitAssign /\ [][NextAssign]_vars

(***************************************************************************)
(* The parameter specification: three parameters that may be chained and   *)
(* two signals that may take their width from them.                        *)
(***************************************************************************)
InitParam ==
    /\ \E wq \in 1 .. MaxWidth :
          nodes = <<Param("top", MaxWidth, FALSE), Param("top", wq, TRUE),
                    Param("top", MaxWidth, FALSE),
                    Var("Var", "Base", "top", 1, <<1>>, FALSE),
                    Var("Var", "Base", "top", 1, <<1>>, FALSE)>>
    /\ stmts = <<>>
    /\ last = NoCall

IsParam(i) == nodes[i].cls = "Param"

SetValueStep ==
    \E p \in DOMAIN nodes, v \in -1 .. MaxValue : IsParam(p) /\ SetValue(p, v)

\* a parameter is chained once, to a parameter created before it
SetValueParamStep ==
    \E self \in DOMAIN nodes, param \in DOMAIN nodes :
        /\ IsParam(self) /\ IsParam(param)
        /\ param < self /\ nodes[self].parent_param = NoNode
        /\ SetValueParam(self, param)

\* a signal is parametrized once
SetWidthParamStep ==
    \E self \in DOMAIN nodes, param \in DOMAIN nodes :
        /\ ~IsParam(self) /\ IsParam(param)
        /\ nodes[self].param = NoNode
        /\ SetWidthParam(self, param)

NextParam == SetValueStep \/ SetValueParamStep \/ SetWidthParamStep

SpecParam == InitParam /\ [][NextParam]_vars

(***************************************************************************)
(* The expression specification: two signals of any width, shape and sign, *)
(* combined by every operator.                                             *)
(***************************************************************************)
ExprOperands ==
    {Var("Var", "Base", "top", w, <<1>>, sg) :
        w \in 1 .. MaxWidth, sg \in BOOLEAN}
    \cup {Var("Var", "Base", "top", 1, <<MaxDim>>, FALSE)}

InitExpr ==
    /\ \E a \in ExprOperands, b \in ExprOperands : nodes = <<a, b>>
    /\ stmts = <<>>
    /\ last = NoCall

NumExprs == NumOf({"Expr", "ConditionalExpr"})

OperatorStep ==
    /\ NumExprs < MaxExprs
    /\ \/ \E op \in BinaryOps, left \in DOMAIN nodes, right \in DOMAIN nodes :
            Operator(op, left, right)
       \/ \E op \in UnaryOps, left \in DOMAIN nodes :
            Operator(op, left, NoNode)

ConditionalStep ==
    /\ NumExprs < MaxExprs
    /\ \E condition \in DOMAIN nodes, left \in DOMAIN nodes,
          right \in DOMAIN nodes : Conditional(condition, left, right)

NextExpr == OperatorStep \/ ConditionalStep

SpecExpr == InitExpr /\ [][NextExpr]_vars

(***************************************************************************)
(* The scope specification: signals and ports of a scope, of its child     *)
(* scopes, and a constant literal; assignments between them and binary     *)
(* expressions over them.                                                  *)
(***************************************************************************)
ScopeRoots ==
    {Var("Var", "Base", "top", 1, <<1>>, FALSE),
     Var("Var", "Base", "child", 1, <<1>>, FALSE),
     Port("top", 1, FALSE),
     Port("child", 1, FALSE),
     Port("sibling", 1, FALSE)}

InitScope ==
    /\ \E a \in ScopeRoots, b \in ScopeRoots : nodes = <<a, b, Const(1, FALSE)>>
    /\ stmts = <<>>
    /\ last = NoCall

BinaryStep ==
    /\ NumExprs < MaxExprs
    /\ \E left \in DOMAIN nodes, right \in DOMAIN nodes :
          Operator("Add", left, right)

NextScope == AssignStep \/ BinaryStep

SpecScope == InitScope /\ [][NextScope]_vars

(***************************************************************************)
(* The variable-indexed slicing specification: a parent of any shape and   *)
(* an index signal of any width.                                           *)
(***************************************************************************)
IndexedParents ==
    BaseVars("top") \cup ExplicitScalars("top")
    \cup {Var("Var", "Base", "top", 1, <<MaxDim + 1>>, FALSE)}

IndexSignals ==
    {Var("Var", "Base", "top", w, <<1>>, FALSE) : w \in 1 .. MaxWidth}
    \cup {Var("Var", "Base", "top", 1, <<MaxDim>>, FALSE)}

InitVarSlice ==
    /\ \E a \in IndexedParents, i \in IndexSignals : nodes = <<a, i>>
    /\ stmts = <<>>
    /\ last = NoCall

NextVarSlice ==
    \E p \in DOMAIN nodes, var \in DOMAIN nodes : SliceVar(p, var)

SpecVarSlice == InitVarSlice /\ [][NextVarSlice]_vars

(***************************************************************************)
(* The link specification: two signals, the wrapper nodes built over them  *)
(* (to depth MaxWrappers), the assignments between any two nodes and their *)
(* removal.                                                                *)
(***************************************************************************)
LinkRoots ==
    {Var("Var", "Base", "top", MaxWidth, <<1>>, FALSE),
     Var("Var", "Base", "top", 1, <<1>>, FALSE)}

InitLink ==
    /\ \E b \in LinkRoots :
          nodes = <<Var("Var", "Base", "top", MaxWidth, <<1>>, FALSE), b>>
    /\ stmts = <<>>
    /\ last = NoCall

WrapStep ==
    /\ NumOf(DerivedCls) < MaxWrappers
    /\ stmts = <<>>
    /\ \/ \E p \in DOMAIN nodes, high \in 0 .. 1, low \in 0 .. 1 :
            Slice(p, high, low)
       \/ \E p \in DOMAIN nodes, var \in DOMAIN nodes : SliceVar(p, var)
       \/ \E self \in DOMAIN nodes, v \in DOMAIN nodes : Concat(self, v)
       \/ \E self \in DOMAIN nodes : Extend(self, MaxWidth)
       \/ \E self \in DOMAIN nodes, k \in {"Signed", "Unsigned"} :
            Cast(self, k)
       \/ \E left \in DOMAIN nodes, right \in DOMAIN nodes :
            Operator("Add", left, right)

UnassignStep ==
    \E self \in DOMAIN nodes, stmt \in DOMAIN stmts : Unassign(self, stmt)

NextLink == WrapStep \/ AssignStep \/ UnassignStep

SpecLink == InitLink /\ [][NextLink]_vars

(***************************************************************************)
(* The merge specification: two signals, their slices, concatenations and  *)
(* casts, and the transfer of the caches of one node to another.           *)
(***************************************************************************)
MergeRoots ==
    {Var("Var", "Base", "top", MaxWidth, <<1>>, sg) : sg \in BOOLEAN}
    \cup {Var("Var", "Base", "top", 1, <<1>>, FALSE)}

InitMerge ==
    /\ \E b \in MergeRoots :
          nodes = <<Var("Var", "Base", "top", MaxWidth, <<1>>, FALSE), b>>
    /\ stmts = <<>>
    /\ last = NoCall

DeriveStep ==
    /\ NumOf(DerivedCls) < MaxWrappers
    /\ \/ \E p \in DOMAIN nodes, high \in 0 .. 1, low \in 0 .. 1 :
            Slice(p, high, low)
       \/ \E self \in DOMAIN nodes, v \in DOMAIN nodes : Concat(self, v)

MergeCastStep ==
    \E self \in DOMAIN nodes, k \in {"Signed", "Unsigned"} :
        /\ NumOf(DerivedCls) < MaxWrappers \/ Cached(nodes[self].casted, k) # {}
        /\ Cast(self, k)

MoveLinkedStep ==
    \E old \in DOMAIN nodes, new_var \in DOMAIN nodes :
        MoveLinkedTo(old, new_var)

NextMerge == DeriveStep \/ MergeCastStep \/ MoveLinkedStep

SpecMerge == InitMerge /\ [][NextMerge]_vars

(***************************************************************************)
(* The struct specification: a packed struct of one to three fields of any *)
(* width and sign, and the projection of its fields by name.               *)
(***************************************************************************)
FieldNames == <<"a", "b", "c">>

Layouts ==
    UNION {{[k \in 1 .. len |-> Attribute(FieldNames[k], w[k], sg[k])] :
               w \in [1 .. len -> 1 .. MaxWidth],
               sg \in [1 .. len -> BOOLEAN]} : len \in 1 .. Len(FieldNames)}

InitStruct ==
    /\ \E attributes \in Layouts :
          nodes = <<VarPackedStructOf("top", attributes)>>
    /\ stmts = <<>>
    /\ last = NoCall

MemberStep ==
    /\ NumOf({"PackedSlice"}) < MaxSlices
    /\ \E p \in DOMAIN nodes, member_name \in {"a", "b", "c", "d"} :
          /\ nodes[p].cls = "VarPackedStruct"
          /\ Member(p, member_name)

NextStruct == MemberStep

SpecStruct == InitStruct /\ [][NextStruct]_vars

(***************************************************************************)
(* The chain specification: two parameters, each of which may follow the   *)
(* other or itself, and the change of their value.                         *)
(***************************************************************************)
InitChain ==
    /\ nodes = <<Param("top", MaxWidth, FALSE), Param("top", MaxWidth, FALSE)>>
    /\ stmts = <<>>
    /\ last = NoCall

ChainStep ==
    \E self \in DOMAIN nodes, param \in DOMAIN nodes :
        SetValueParam(self, param)

NextChain == ChainStep \/ SetValueStep

SpecChain == InitChain /\ [][NextChain]_vars

(***************************************************************************)
(* The constant specification: literals of every width below the word's,   *)
(* of every value of the word, and the change of their value.              *)
(***************************************************************************)
WordValues == -(Word \div 2) .. Word \div 2 - 1

InitConst ==
    /\ nodes = <<>>
    /\ stmts = <<>>
    /\ last = NoCall

ConstantStep ==
    /\ NumOf({"Const"}) < MaxConsts
    /\ \E value \in WordValues, w \in 1 .. WordBits - 1,
          is_signed \in BOOLEAN : Constant(value, w, is_signed)

ConstSetValueStep ==
    \E self \in DOMAIN nodes, new_value \in WordValues :
        /\ nodes[self].cls = "Const"
        /\ ConstSetValue(self, new_value)

NextConst == ConstantStep \/ ConstSetValueStep

SpecConst == InitConst /\ [][NextConst]_vars

(***************************************************************************)
(* The relocation specification: three signals of one scope, the views     *)
(* built over them, one assignment that a scope takes, and the relocation  *)
(* of the written or read side of a signal to another signal.              *)
(***************************************************************************)
InitMove ==
    /\ \E w \in 1 .. MaxWidth :
          nodes = <<Var("Var", "Base", "top", MaxWidth, <<1>>, FALSE),
                    Var("Var", "Base", "top", MaxWidth, <<1>>, FALSE),
                    Var("Var", "Base", "top", w, <<1>>, FALSE)>>
    /\ stmts = <<>>
    /\ last = NoCall

\* one view over a signal, then a slice of a slice, or a concatenation of
\* the third signal next to an expression
MoveViewStep ==
    /\ stmts = <<>>
    /\ \/ /\ NumOf(DerivedCls) < MaxViews
          /\ \/ \E p \in DOMAIN nodes, bit \in 0 .. 1 : Slice(p, bit, bit)
             \/ \E self \in DOMAIN nodes : Cast(self, "Unsigned")
             \/ \E left \in DOMAIN nodes, right \in DOMAIN nodes :
                   Operator("Add", left, right)
             \/ \E self \in {3}, v \in {2} : Concat(self, v)
       \/ /\ NumOf(DerivedCls) < MaxWrappers
          /\ \/ /\ nodes[Len(nodes)].cls = "VarSlice"
                /\ Slice(Len(nodes), 0, 0)
             \/ /\ nodes[Len(nodes)].cls = "Expr"
                /\ \E self \in {3}, v \in {2} : Concat(self, v)

AddStmtStep ==
    \E generator \in {"top", "child"}, stmt \in DOMAIN stmts :
        AddStmt(generator, stmt)

\* the relocations are within scope top, from the first signal to the third,
\* the second being like the first; a relocation may build slices and one
\* more assignment, after which no other relocation is made
MoveSrcStep ==
    \E var \in DOMAIN nodes, new_var \in DOMAIN nodes,
       parent \in {"top"}, keep_connection \in BOOLEAN :
        /\ var = 1 /\ new_var = 3
        /\ Room
        /\ Len(stmts) <= MaxStmts
        /\ MoveSrcTo(var, new_var, parent, keep_connection)

MoveSinkStep ==
    \E var \in DOMAIN nodes, new_var \in DOMAIN nodes,
       parent \in {"top"}, keep_connection \in BOOLEAN :
        /\ var = 1 /\ new_var = 3
        /\ Room
        /\ Len(stmts) <= MaxStmts
        /\ MoveSinkTo(var, new_var, parent, keep_connection)

NextMove ==
    MoveViewStep \/ AssignStep \/ AddStmtStep \/ MoveSrcStep \/ MoveSinkStep

SpecMove == InitMove /\ [][NextMove]_vars

(***************************************************************************)
(* The whole machine: every construction call, from any of the initial     *)
(* graphs.  The specifications above are its restrictions to one family of *)
(* calls.                                                                  *)
(***************************************************************************)
Init ==
    \/ InitSlice \/ InitConcat \/ InitDerive \/ InitAssign \/ InitParam
    \/ InitExpr \/ InitScope \/ InitVarSlice \/ InitLink \/ InitMerge
    \/ InitMove \/ InitConst \/ InitChain \/ InitStruct

Next ==
    \/ NextSlice \/ NextConcat \/ NextDerive \/ AssignStep \/ NextParam
    \/ NextExpr \/ NextVarSlice \/ UnassignStep \/ MoveLinkedStep
    \/ AddStmtStep \/ MoveSrcStep \/ MoveSinkStep \/ NextConst
    \/ ChainStep \/ MemberStep

Spec == Init /\ [][Next]_vars

(***************************************************************************)
(* Claims about range slices.                                              *)
(***************************************************************************)
IsSlice(i) == nodes[i].cls = "VarSlice"
\* a true scalar signal: size {1}, not marked as an explicit array
IsPlainScalarRoot(i) ==
    nodes[i].cls = "Var" /\ IsScalar(nodes[i]) /\ ~nodes[i].explicit_array

\* C1: a slice [h1:l1] of a scalar signal has width h1-l1+1 and absolute
\* bounds (h1, l1); re-slicing it with [h2:l2] yields width h2-l2+1 and
\* absolute bounds var_low = l1+l2, var_high = l1+h2 against the root.
C1_ResliceComposes ==
    \A i \in DOMAIN nodes :
        IsSlice(i) =>
            LET s == nodes[i]
                p == s.parent_var
            IN  /\ IsPlainScalarRoot(p) =>
                    /\ width(s) = s.high - s.low + 1
                    /\ s.var_high = s.high
                    /\ s.var_low = s.low
                /\ (IsSlice(p) /\ IsPlainScalarRoot(nodes[p].parent_var)) =>
                    /\ width(s) = s.high - s.low + 1
                    /\ s.var_low = nodes[p].low + s.low
                    /\ s.var_high = nodes[p].low + s.high

\* C2: operator[]({high, low}) throws VarException whenever low > high, and
\* whenever the parent is a scalar (size {1}) and high >= its width; the
\* failed call adds no slice to the parent's slice set (the graph is
\* unchanged).
C2_BadSliceFails ==
    [][(/\ last'.op = "slice"
        /\ \/ last'.args[2] > last'.args[1]
           \/ /\ IsScalar(nodes[last'.self])
              /\ last'.args[1] >= width(nodes[last'.self]))
       => (/\ last'.status = "VarException"
           /\ nodes' = nodes)]_vars

C2_Witness ==
    /\ last.op = "slice"
    /\ last.status = "VarException"
    /\ last.args[2] > last.args[1]
    /\ nodes[last.self].slices # {}

\* C3: for a genuine multi-element array with outer dimension D = size[0],
\* every range slice with high >= D fails with VarException.
C3_ArraySliceWithinOuterDim ==
    (/\ last.op = "slice"
     /\ nodes[last.self].size[1] > 1
     /\ last.args[1] >= nodes[last.self].size[1])
    => last.status = "VarException"

(***************************************************************************)
(* Claims about concatenation.                                             *)
(***************************************************************************)
\* C4: a.concat(b) returns the same node on every call: no two distinct
\* concatenation nodes are a concatenation of the same two immediate
\* operands (the receiver of the call and its argument); a concat call that
\* fails on signedness adds nothing to the graph.
C4_ConcatMemoized ==
    \A i, j \in DOMAIN nodes :
        (/\ nodes[i].cls = "VarConcat" /\ nodes[j].cls = "VarConcat"
         /\ nodes[i].left = nodes[j].left
         /\ nodes[i].right = nodes[j].right)
        => i = j

\* C5: width() of a concatenation node is the sum of the total widths of
\* its operands.
RECURSIVE SumWidths(_)
SumWidths(operands) ==
    IF operands = <<>> THEN 0
    ELSE width(nodes[Head(operands)]) + SumWidths(Tail(operands))

C5_ConcatWidthIsSum ==
    \A i \in DOMAIN nodes :
        nodes[i].cls = "VarConcat" => width(nodes[i]) = SumWidths(nodes[i].vars)

(***************************************************************************)
(* Claims about extension and casts.                                       *)
(***************************************************************************)
IsArray(n) == Len(n.size) > 1 \/ n.size[1] > 1

\* what a successful a.extend(w) returns, in the step of the call: a node of
\* width w with a's signedness, cached under w, and the node any earlier
\* call with the same w returned
ExtendReturns(self, w) ==
    /\ last'.status = "ok"
    /\ width(nodes'[last'.ret]) = w
    /\ nodes'[last'.ret].is_signed = nodes[self].is_signed
    /\ <<w, last'.ret>> \in nodes'[self].extended
    /\ \A e \in nodes[self].extended : e[1] = w => e[2] = last'.ret
    /\ \A i \in DOMAIN nodes : nodes[i].extended \subseteq nodes'[i].extended

C7_CastMemoized ==
    /\ (last.op = "cast" /\ last.status = "ok") =>
          IF last.args[1] = "Signed" /\ nodes[last.self].is_signed
          THEN last.ret = last.self
          ELSE /\ nodes[last.ret].cls = "VarCasted"
               /\ nodes[last.ret].parent_var = last.self
               /\ nodes[last.ret].cast_type = last.args[1]
    /\ \A i, j \in DOMAIN nodes :
          (/\ nodes[i].cls = "VarCasted" /\ nodes[j].cls = "VarCasted"
           /\ nodes[i].parent_var = nodes[j].parent_var
           /\ nodes[i].cast_type = nodes[j].cast_type)
          => i = j
    /\ \A i \in DOMAIN nodes :
          nodes[i].cls = "VarCasted" =>
              ~(nodes[i].cast_type = "Signed"
                /\ nodes[nodes[i].parent_var].is_signed)

C7_Witness ==
    /\ last.op = "cast" /\ last.status = "ok"
    /\ nodes[last.ret].cls = "VarCasted"
    /\ last.ret # Len(nodes)

\* C8: a.cast(Clock) and a.cast(AsyncReset) throw VarException for every
\* signal whose width is greater than 1.
C8_ClockCastNeedsOneBit ==
    (/\ last.op = "cast"
     /\ last.args[1] \in {"Clock", "AsyncReset"}
     /\ width(nodes[last.self]) > 1)
    => last.status = "VarException"

(***************************************************************************)
(* Claims about assignment.                                                *)
(***************************************************************************)
\* C9: Var::assign throws VarException when the sink is a constant or an
\* expression, and EnumVar::assign when the source is not an enum value or
\* is of an enum type with another name; no statement is created and no
\* link set changes.
C9_BadAssignFails ==
    [][last'.op = "assign" =>
        LET sink == nodes[last'.self]
            source == nodes[last'.args[1]]
        IN  (\/ sink.type \in {"ConstValue", "Expression"}
             \/ /\ sink.cls = "EnumVar"
                /\ \/ source.cls \notin {"EnumVar", "EnumConst"}
                   \/ source.enum_type # sink.enum_type)
            => (/\ last'.status = "VarException"
                /\ stmts' = stmts
                /\ nodes' = nodes)]_vars

C9_Witness ==
    /\ last.op = "assign" /\ last.status = "VarException"
    /\ nodes[last.self].type = "Expression"
    /\ nodes[last.args[1]].cls = "Var"

\* a sink and a source Var::assign accepts: the sink is stored in signals
\* (not constants), is no expression or cast, and an enum sink gets a value
\* of its own enum
WellTyped(self, v) ==
    /\ nodes[self].cls \in {"Var", "EnumVar", "VarSlice"}
    /\ \A k \in SourceLeaves(self) : nodes[k].type = "Base"
    /\ width(nodes[self]) = width(nodes[v])
    /\ nodes[self].is_signed = nodes[v].is_signed
    /\ nodes[self].cls = "EnumVar" =>
          (is_enum(nodes[v]) /\ nodes[v].enum_type = nodes[self].enum_type)

\* C10: Var::assign of a well-typed source to a well-typed sink succeeds,
\* and when it returns the new statement is in the link set of the sink
\* (the signals written through it) and in the link set of the source (the
\* signals read through it).
C10_AssignRegistersBoth ==
    last.op = "assign" =>
        /\ WellTyped(last.self, last.args[1]) => last.status = "ok"
        /\ last.status = "ok" =>
            /\ \A k \in SourceLeaves(last.self) :
                    last.ret \in nodes[k].sources
            /\ \A k \in SinkLeaves(last.args[1]) :
                    last.ret \in nodes[k].sinks

(***************************************************************************)
(* Claims about parameters.                                                *)
(***************************************************************************)
\* C11: Param::set_value(v) with v > 0 succeeds, sets the per-element width
\* of every signal parametrized by the parameter to v and the value of
\* every chained dependent parameter (transitively) to v, with their
\* dependent signals updated too; set_value(v) with v <= 0 throws
\* VarException when the parameter has at least one dependent signal.
C11_SetValueCascades ==
    last.op = "set_value" =>
        LET p == last.self
            v == last.args[1]
            chain == Chained(nodes, p)
        IN  /\ v > 0 =>
                /\ last.status = "ok"
                /\ \A q \in {p} \cup chain : \A x \in nodes[q].param_vars :
                        nodes[x].var_width = v
                /\ \A q \in chain : nodes[q].value = v
            /\ (v <= 0 /\ nodes[p].param_vars # {}) =>
                last.status = "VarException"

\* node v is node t or is built over it
RECURSIVE Mentions(_, _, _)
Mentions(ns, v, t) ==
    \/ v = t
    \/ /\ v # NoNode
       /\ LET n == ns[v] IN
          \/ Mentions(ns, n.parent_var, t)
          \/ Mentions(ns, n.left, t)
          \/ Mentions(ns, n.right, t)
          \/ Mentions(ns, n.condition, t)
          \/ Mentions(ns, n.sliced_var, t)
          \/ \E k \in DOMAIN n.vars : Mentions(ns, n.vars[k], t)

\* operand y of the graph post is operand x of the graph pre with signal A
\* replaced by signal B: B itself, the same chain of slices on B, or a node
\* built over B and no longer over A
RECURSIVE ReRooted(_, _, _, _, _, _)
ReRooted(pre, x, post, y, A, B) ==
    IF x = A THEN y = B
    ELSE IF pre[x].type = "Slice"
    THEN /\ post[y].type = "Slice"
         /\ post[y].cls = pre[x].cls
         /\ post[y].high = pre[x].high /\ post[y].low = pre[x].low
         /\ post[y].sliced_var = pre[x].sliced_var
         /\ ReRooted(pre, pre[x].parent_var, post, post[y].parent_var, A, B)
    ELSE Mentions(post, y, B) /\ ~Mentions(post, y, A)

\* what the claim states of a successful relocation step; side is "left"
\* for move_src_to and "right" for move_sink_to
Relocated(side) ==
    LET A == last'.self
        B == last'.args[1]
        S == last'.args[2]
        keep_connection == last'.args[3]
        SideOf(ss, s) == IF side = "left" THEN ss[s].left ELSE ss[s].right
        Registered(ns, v) == IF side = "left" THEN ns[v].sources
                             ELSE ns[v].sinks
        moved == {s \in Registered(nodes, A) : stmts[s].parent = S}
    IN  /\ \A s \in DOMAIN stmts :
              stmts'[s].parent = S =>
                  /\ ~Mentions(nodes', SideOf(stmts', s), A)
                  /\ s \notin Registered(nodes', A)
        /\ \A s \in moved :
              /\ ReRooted(nodes, SideOf(stmts, s), nodes',
                          SideOf(stmts', s), A, B)
              /\ s \in Registered(nodes', B)
        /\ \A s \in DOMAIN stmts \ moved :
              /\ SideOf(stmts', s) = SideOf(stmts, s)
              /\ s \in Registered(nodes', B) <=> s \in Registered(nodes, B)
        /\ IF keep_connection
           THEN /\ Len(stmts') = Len(stmts) + 1
                /\ LET new == stmts'[Len(stmts')] IN
                   /\ new.parent = S
                   /\ IF side = "left"
                      THEN new.left = A /\ new.right = B
                      ELSE new.left = B /\ new.right = A
           ELSE Len(stmts') = Len(stmts)

\* C12: after a successful move_src_to(A, B, S, keep_connection), no earlier
\* assignment owned by S has A as its written operand or is registered on A
\* as a source; exactly the relocated assignments have B, or the same chain
\* of slices on B, as written operand and are registered on B; and with
\* keep_connection exactly one new assignment A := B owned by S exists.  The
\* same holds of move_sink_to on the read side, the new assignment being
\* B := A.
C12_RelocationAsStated ==
    [][/\ (last'.op = "move_src_to" /\ last'.status = "ok")
            => Relocated("left")
       /\ (last'.op = "move_sink_to" /\ last'.status = "ok")
            => Relocated("right")]_vars

(***************************************************************************)
(* Claims about operator expressions.                                      *)
(***************************************************************************)
\* the operators the claims call relational/comparison and reduction
ComparisonOps == {"LessThan", "GreaterThan", "LessEqThan", "GreaterEqThan",
                  "Eq", "Neq"}
ReductionOps == {"UOr", "UAnd", "UXor", "UNot"}

\* C13: for operands of equal width, every comparison operator (<, >, <=,
\* >=, equality, inequality) and every reduction operator yields an
\* expression whose width() is 1, every other operator one whose width()
\* is the left operand's width(), and the result is signed iff all
\* operands are signed.
C13_ExprWidthAndSign ==
    (last.op = "expr" /\ last.status = "ok") =>
        LET e == nodes[last.ret]
            l == nodes[last.self]
            op == last.args[1]
            right == last.args[2]
        IN  /\ width(e) = IF op \in ComparisonOps \cup ReductionOps
                          THEN 1 ELSE width(l)
            /\ e.is_signed = (l.is_signed
                              /\ (right = NoNode \/ nodes[right].is_signed))

\* C14: building an operator expression over two operands whose total
\* widths differ throws VarException, for every binary operator and for
\* the branches of a conditional expression; a unary operator never fails.
C14_WidthMismatchFails ==
    /\ (last.op = "expr" /\ last.args[2] # NoNode
        /\ width(nodes[last.self]) # width(nodes[last.args[2]]))
       => last.status = "VarException"
    /\ (last.op = "conditional"
        /\ width(nodes[last.self]) # width(nodes[last.args[2]]))
       => last.status = "VarException"
    /\ (last.op = "expr" /\ last.args[2] = NoNode) => last.status = "ok"

C14_Witness ==
    /\ last.op = "conditional" /\ last.status = "VarException"
    /\ width(nodes[last.self]) # width(nodes[last.args[2]])
    /\ width(nodes[last.args[1]]) = 1

(***************************************************************************)
(* Claims about the owning scope of an expression.                         *)
(***************************************************************************)
IsLiteral(i) == nodes[i].cls = "Const"

\* C15: a binary expression over one constant literal and one signal v is
\* owned by v's scope, whichever side the constant is on, also when the
\* constant has been the source of assignments before.
C15_ConstExprInSignalScope ==
    (last.op = "expr" /\ last.status = "ok" /\ last.args[2] # NoNode) =>
        LET left == last.self
            right == last.args[2]
            owner == nodes[last.ret].generator
        IN  /\ (IsLiteral(left) /\ ~IsLiteral(right))
                => owner = nodes[right].generator
            /\ (IsLiteral(right) /\ ~IsLiteral(left))
                => owner = nodes[left].generator

IsPort(i) == nodes[i].type = "PortIO"

\* the owner the claim gives a binary expression over signals x and y, in
\* this order or the other; NoGen when the claim does not speak
ClaimedOwner(x, y) ==
    LET gx == nodes[x].generator
        gy == nodes[y].generator
    IN  IF gx = gy THEN gx
        ELSE IF IsPort(x) /\ GenParent(gx) = gy THEN gy
        ELSE IF IsPort(x) /\ IsPort(y) /\ GenParent(gx) # NoGen
                /\ GenParent(gx) = GenParent(gy) THEN GenParent(gx)
        ELSE NoGen

\* C16: a binary expression over a port of a child scope C and a signal of
\* C's parent scope P is owned by P, whichever operand is on the left; one
\* over two ports of sibling scopes with common parent P is owned by P;
\* operands of the same scope yield that scope.
C16_ScopeMerge ==
    (/\ last.op = "expr" /\ last.status = "ok" /\ last.args[2] # NoNode
     /\ ~IsLiteral(last.self) /\ ~IsLiteral(last.args[2])) =>
        LET left == last.self
            right == last.args[2]
            owner == nodes[last.ret].generator
        IN  /\ ClaimedOwner(left, right) # NoGen
                => owner = ClaimedOwner(left, right)
            /\ ClaimedOwner(right, left) # NoGen
                => owner = ClaimedOwner(right, left)

C16_Witness ==
    /\ last.op = "expr" /\ last.status = "ok" /\ last.args[2] # NoNode
    /\ nodes[last.self].generator = "top" /\ ~IsPort(last.self)
    /\ nodes[last.args[2]].generator = "child" /\ IsPort(last.args[2])
    /\ nodes[last.ret].generator = "top"

(***************************************************************************)
(* Claims about variable-indexed slices.                                   *)
(***************************************************************************)
\* C17: parent[index] is built only when index.width() equals
\* max(1, ceil(log2(outer dimension of parent))); for every parent, scalar
\* or array, and every index signal of another width the call throws
\* VarException and adds no slice to the parent's slice set.
C17_IndexWidthChecked ==
    [][last'.op = "slice_var" =>
        LET parent == nodes[last'.self]
            index == nodes[last'.args[1]]
            required == Max(1, CeilLog2(parent.size[1]))
        IN  /\ width(index) # required =>
                (last'.status = "VarException" /\ nodes' = nodes)
            /\ last'.status = "ok" => width(index) = required]_vars

(***************************************************************************)
(* Claims about link sets.                                                 *)
(***************************************************************************)
\* a view of another signal: a range slice, a cast or an extension
IsWrapper(i) == nodes[i].cls \in {"VarSlice", "VarCasted", "VarExtend"}

\* the signal a chain of wrappers is a view of
RECURSIVE Underlying(_)
Underlying(i) ==
    IF IsWrapper(i) THEN Underlying(nodes[i].parent_var) ELSE i

IsSignal(i) == nodes[i].cls = "Var"

\* C18: the link notifications issued on a wrapper node (a range slice at
\* any depth, a cast, an extension) complete without error and register the
\* statement in the link set of the underlying signal: an assignment whose
\* sink is a slice passes add_source to the root of the slice chain, one
\* whose source is a wrapper passes add_sink to it.
C18_WrappersForward ==
    (/\ last.op = "assign"
     /\ AssignStatus(last.self, last.args[1]) = "ok"
     /\ IsSignal(Underlying(last.self)) /\ IsSignal(Underlying(last.args[1])))
    => /\ last.status = "ok"
       /\ IsWrapper(last.self) =>
            last.ret \in nodes[Underlying(last.self)].sources
       /\ IsWrapper(last.args[1]) =>
            last.ret \in nodes[Underlying(last.args[1])].sinks

\* C19: after Var::unassign(stmt), called on the statement's sink, the
\* statement is in no signal's sources or sinks set.
C19_UnassignUnlinksAll ==
    (last.op = "unassign" /\ last.self = stmts[last.args[1]].left) =>
        \A i \in DOMAIN nodes :
            /\ last.args[1] \notin nodes[i].sources
            /\ last.args[1] \notin nodes[i].sinks

(***************************************************************************)
(* Claims about merging identities.                                        *)
(***************************************************************************)
\* C20: after a successful old.move_linked_to(new), old # new, every cast
\* node cached on old is cached on new under its kind (new.cast(k) returns
\* it) and has new as its parent; at most one cast node of a kind has new
\* as its parent; the slice, concatenation and cast caches of old are
\* empty; what new had cached before is still cached on new.
C20_MoveLinkedKeepsIdentity ==
    [][(/\ last'.op = "move_linked_to" /\ last'.status = "ok"
        /\ last'.self # last'.args[1]) =>
        LET old == last'.self
            new == last'.args[1]
        IN  /\ \A e \in nodes[old].casted :
                  /\ e \in nodes'[new].casted
                  /\ nodes'[e[2]].parent_var = new
            /\ \A i, j \in DOMAIN nodes' :
                  (/\ nodes'[i].cls = "VarCasted" /\ nodes'[j].cls = "VarCasted"
                   /\ nodes'[i].parent_var = new /\ nodes'[j].parent_var = new
                   /\ nodes'[i].cast_type = nodes'[j].cast_type)
                  => i = j
            /\ nodes'[old].slices = {}
            /\ nodes'[old].concat_vars = {}
            /\ nodes'[old].casted = {}
            /\ nodes[new].slices \subseteq nodes'[new].slices
            /\ nodes[new].concat_vars \subseteq nodes'[new].concat_vars
            /\ \A e \in nodes[new].casted :
                  Cached(nodes[old].casted, e[1]) = {}
                  => e \in nodes'[new].casted]_vars


\* the range that width w and the sign imply
InRange(value, w, is_signed) ==
    IF is_signed
    THEN -(2 ^ (w - 1)) <= value /\ value <= 2 ^ (w - 1) - 1
    ELSE 0 <= value /\ value <= 2 ^ w - 1

\* C21: the construction of a constant of width w, 1 <= w < the bits of the
\* word, succeeds exactly when the value is in [-2^(w-1), 2^(w-1)-1] for a
\* signed constant and in [0, 2^w-1] for an unsigned one, and otherwise
\* fails with a UserException.
C21_ConstRangeChecked ==
    last.op = "constant" =>
        /\ last.status = "ok"
              <=> InRange(last.args[1], last.args[2], last.args[3])
        /\ last.status \in {"ok", "UserException"}
        /\ last.status = "ok" =>
              /\ nodes[last.ret].value = last.args[1]
              /\ nodes[last.ret].var_width = last.args[2]
              /\ nodes[last.ret].is_signed = last.args[3]

\* a negative value was rejected for an unsigned constant
C21_Witness ==
    /\ last.op = "constant" /\ last.status = "UserException"
    /\ last.args[1] < 0 /\ ~last.args[3]

\* C26: Const::set_value(v) with v out of the range of the constant's width
\* and sign fails with a UserException that the caller sees and leaves the
\* value as it was; with v in range the value becomes v.
C26_SetValueFailsVisibly ==
    [][last'.op = "const_set_value" =>
         LET self == last'.self
             v == last'.args[1]
         IN  IF InRange(v, width(nodes[self]), nodes[self].is_signed)
             THEN last'.status = "ok" /\ nodes'[self].value = v
             ELSE /\ last'.status = "UserException"
                  /\ nodes'[self].value = nodes[self].value]_vars

\* C27: in every state reached by set_width_param and Param::set_value
\* calls, failed ones included, each signal parametrized by a parameter has
\* the parameter's current value as its width per element, and that value
\* is positive.
C27_ParametrizedWidthIsValue ==
    \A i \in DOMAIN nodes :
        nodes[i].param # NoNode =>
            /\ nodes[i].var_width = nodes[nodes[i].param].value
            /\ nodes[nodes[i].param].value > 0

\* C30: Param::set_value(int) returns for every chaining of parameters that
\* Param::set_value(Param) can build, a parameter that follows itself and
\* two parameters that follow each other included.
C30_SetValueTerminates ==
    last.op = "set_value" => last.status # "NoReturn"

\* the position of the field called name in a layout table (0 when none)
FieldAt(attributes, name) ==
    IF \E k \in DOMAIN attributes : attributes[k].name = name
    THEN CHOOSE k \in DOMAIN attributes : attributes[k].name = name
    ELSE 0

\* the sum of the widths of the first k fields
RECURSIVE WidthBefore(_, _)
WidthBefore(attributes, k) ==
    IF k = 0 THEN 0
    ELSE attributes[k].width + WidthBefore(attributes, k - 1)

\* C24: the projection of field f of a packed struct has low = the sum of
\* the widths of the fields before f, high = low + width(f) - 1, the sign of
\* f and the width of f; the ranges of distinct fields are disjoint and lie
\* in [0, struct width - 1]; the projection of an unknown name fails with an
\* InternalException.
C24_FieldProjection ==
    /\ \A i \in DOMAIN nodes :
          nodes[i].cls = "PackedSlice" =>
              LET attributes == nodes[nodes[i].parent_var].attributes
                  k == FieldAt(attributes, nodes[i].member_name)
              IN  /\ k # 0
                  /\ nodes[i].low = WidthBefore(attributes, k - 1)
                  /\ nodes[i].high = nodes[i].low + attributes[k].width - 1
                  /\ nodes[i].is_signed = attributes[k].is_signed
                  /\ width(nodes[i]) = attributes[k].width
                  /\ 0 <= nodes[i].low
                  /\ nodes[i].high <= width(nodes[nodes[i].parent_var]) - 1
    /\ \A i, j \in DOMAIN nodes :
          (/\ nodes[i].cls = "PackedSlice" /\ nodes[j].cls = "PackedSlice"
           /\ nodes[i].parent_var = nodes[j].parent_var
           /\ nodes[i].member_name # nodes[j].member_name) =>
              nodes[i].high < nodes[j].low \/ nodes[j].high < nodes[i].low
    /\ last.op = "member" =>
          (last.status = "ok"
              <=> FieldAt(nodes[last.self].attributes, last.args[1]) # 0)
          /\ last.status \in {"ok", "InternalException"}
(***************************************************************************)
(* Claims about the failures and the side effects of a relocation.         *)
(***************************************************************************)
\* the step is a relocation call, of either side
IsMove == last'.op \in {"move_src_to", "move_sink_to"}

\* the operand of statement s a relocation works on: the written one for
\* move_src_to, the read one for move_sink_to
MovedOperand(ss, s) ==
    IF last'.op = "move_src_to" THEN ss[s].left ELSE ss[s].right

\* the statements registered on signal v on the side of the relocation
MovedLinks(ns, v) ==
    IF last'.op = "move_src_to" THEN ns[v].sources ELSE ns[v].sinks

\* the statements a relocation processes: registered on A and owned by S
Processed ==
    {s \in MovedLinks(nodes, last'.self) : stmts[s].parent = last'.args[2]}

\* C25: a relocation move_src_to / move_sink_to(A, B, S, _) in which some
\* assignment owned by S has A directly as its relocated operand fails with
\* VarException whenever the width or the signedness of B differs from that
\* of A
C25_MismatchIsVarException ==
    [][(/\ IsMove
        /\ \E s \in Processed : MovedOperand(stmts, s) = last'.self
        /\ \/ width(nodes[last'.args[1]]) # width(nodes[last'.self])
           \/ nodes[last'.args[1]].is_signed # nodes[last'.self].is_signed)
          => last'.status = "VarException"]_vars

\* C28: a relocation move_src_to / move_sink_to(A, B, S, _) that returns
\* leaves every assignment that S does not own as it was: its operands are
\* the same, and if it was registered on A it still is
C28_OtherScopesUntouched ==
    [][(IsMove /\ last'.status = "ok")
          => \A s \in DOMAIN stmts :
                stmts[s].parent # last'.args[2]
                   => /\ stmts'[s] = stmts[s]
                      /\ s \in MovedLinks(nodes, last'.self)
                            => s \in MovedLinks(nodes', last'.self)]_vars

\* C23: a relocation move_src_to / move_sink_to(A, B, S, _) that returns
\* keeps the memoized derived nodes of B: every cast and every
\* concatenation B had cached is still cached, so the same call returns the
\* identical node, and no slice created on B is dropped from its slice set
C23_NewSignalCachesKept ==
    [][(IsMove /\ last'.status = "ok")
          => LET B == last'.args[1] IN
             /\ nodes[B].casted \subseteq nodes'[B].casted
             /\ nodes[B].concat_vars \subseteq nodes'[B].concat_vars
             /\ nodes[B].slices \subseteq nodes'[B].slices]_vars

\* C22: a relocation move_src_to / move_sink_to(A, B, S, _) that processes
\* one assignment, registered on A and owned by S, whose relocated operand
\* does not contain A (A is not the operand, not the root of its slice
\* chain, and nowhere in the tree the operand is built of) raises
\* InternalException
C22_TargetNotFoundIsInternal ==
    [][(/\ IsMove
        /\ \E s \in Processed :
              /\ Processed = {s}
              /\ ~Mentions(nodes, MovedOperand(stmts, s), last'.self))
          => last'.status = "InternalException"]_vars

\* C29: a relocation move_src_to / move_sink_to that fails with an exception
\* is atomic: no operand of any assignment, no link set and no cache of any
\* signal is modified
C29_FailedRelocationIsAtomic ==
    [][(IsMove /\ last'.status # "ok")
          => /\ nodes' = nodes
             /\ stmts' = stmts]_vars

=============================================================================
